---- MODULE Spec2Model ----
(***************************************************************************)
(* Device-loan client: the reactive state containers (useInventory,        *)
(* useReservations), the use cases they call and the in-memory services    *)
(* behind them.                                                            *)
(*                                                                         *)
(* A behaviour follows ONE container (the variable domain says which); the *)
(* two containers share no state, so each is explored on its own.          *)
(* An optional value (a field that may be undefined, error that may be     *)
(* null) is the empty tuple when absent and a one-element tuple <<v>> when *)
(* present.                                                                *)
(***************************************************************************)
EXTENDS Integers, Sequences, FiniteSets, TLC

\* ------------------------------------------------------------------ bounds
\* invocations of container operations that pass their guard, per behaviour
MaxCalls == 2
\* the same, in the behaviours checked for liveness
MaxLiveCalls == 1

\* ------------------------------------------------------- optional values
undefined == <<>>
null == <<>>
Some(v) == <<v>>
\* a ?? b
Nullish(a, b) == IF a = undefined THEN b ELSE a[1]

Max(a, b) == IF a >= b THEN a ELSE b

\* errors.join('; ')
RECURSIVE Join(_)
Join(errors) ==
  IF Len(errors) = 0 THEN ""
  ELSE IF Len(errors) = 1 THEN errors[1]
  ELSE errors[1] \o "; " \o Join(Tail(errors))

\* array.findIndex(r => r.id === id), 1-based; 0 when there is none (-1 in JS)
findIndex(s, id) ==
  IF \E i \in 1..Len(s) : s[i].id = id
  THEN CHOOSE i \in 1..Len(s) : s[i].id = id /\ \A j \in 1..(i - 1) : s[j].id # id
  ELSE 0

\* array.splice(index, 1)
splice(s, index) == SubSeq(s, 1, index - 1) \o SubSeq(s, index + 1, Len(s))

\* a thrown value: an Error with a message, or a value that is not an Error
Error(message) == [isError |-> TRUE, message |-> message]
NonError(text) == [isError |-> FALSE, text |-> text]
\* e instanceof Error ? e.message : String(e)
MessageOrString(e) == IF e.isError THEN e.message ELSE e.text
\* err instanceof Error ? err.message : fallback
MessageOrFallback(e, fallback) == IF e.isError THEN e.message ELSE fallback

ReservationStatus == {"reserved", "collected", "returned"}

\* ------------------------------------------------ FakeReservationService
\* A service operation yields the value thrown (threw), or the value returned
\* together with the store and the id counter it leaves (store, nextId).
\* t is the value new Date() gives inside the call.

\* listReservations that filters whenever a filter is given, an empty one too
Res_listReservations_filtersEmpty(its, statusFilter) ==
  LET filtered ==
        IF statusFilter # undefined
        THEN LET includes(r) == \E k \in 1..Len(statusFilter[1]) : statusFilter[1][k] = r.status
             IN SelectSeq(its, includes)
        ELSE its
  IN [threw |-> FALSE, items |-> filtered, totalCount |-> Len(filtered)]

Res_listReservations(its, statusFilter) ==
  LET filtered ==
        IF statusFilter # undefined /\ Len(statusFilter[1]) > 0
        THEN LET includes(r) == \E k \in 1..Len(statusFilter[1]) : statusFilter[1][k] = r.status
             IN SelectSeq(its, includes)
        ELSE its
  IN [threw |-> FALSE, items |-> filtered, totalCount |-> Len(filtered)]

\* createReservation that puts the new reservation first
Res_createReservation_unshifts(its, nextId, input, t) ==
  LET newItem == [id |-> "res-" \o ToString(nextId),
                  userId |-> "test-user-id",
                  deviceModelId |-> input.deviceModelId,
                  deviceModelName |-> input.deviceModelName,
                  status |-> "reserved",
                  createdAt |-> t,
                  updatedAt |-> t,
                  collectedAt |-> undefined,
                  returnedAt |-> undefined]
  IN [threw |-> FALSE, store |-> <<newItem>> \o its, nextId |-> nextId + 1, item |-> newItem]

Res_createReservation(its, nextId, input, t) ==
  LET newItem == [id |-> "res-" \o ToString(nextId),
                  userId |-> "test-user-id",
                  deviceModelId |-> input.deviceModelId,
                  deviceModelName |-> input.deviceModelName,
                  status |-> "reserved",
                  createdAt |-> t,
                  updatedAt |-> t,
                  collectedAt |-> undefined,
                  returnedAt |-> undefined]
  IN [threw |-> FALSE, store |-> Append(its, newItem), nextId |-> nextId + 1, item |-> newItem]

\* updateReservationStatus that clears collectedAt when moving elsewhere
Res_updateReservationStatus_clears(its, nextId, id, input, t) ==
  LET index == findIndex(its, id) IN
  IF index = 0
  THEN [threw |-> TRUE, thrown |-> Error("Reservation " \o id \o " not found")]
  ELSE LET item == its[index]
           updated == [item EXCEPT !.status = input.status,
                                   !.updatedAt = t,
                                   !.collectedAt = IF input.status = "collected" THEN Some(t) ELSE undefined,
                                   !.returnedAt = IF input.status = "returned" THEN Some(t) ELSE item.returnedAt]
       IN [threw |-> FALSE, store |-> [its EXCEPT ![index] = updated], nextId |-> nextId,
           item |-> updated]

Res_updateReservationStatus(its, nextId, id, input, t) ==
  LET index == findIndex(its, id) IN
  IF index = 0
  THEN [threw |-> TRUE, thrown |-> Error("Reservation " \o id \o " not found")]
  ELSE LET item == its[index]
           updated == [item EXCEPT !.status = input.status,
                                   !.updatedAt = t,
                                   !.collectedAt = IF input.status = "collected" THEN Some(t) ELSE item.collectedAt,
                                   !.returnedAt = IF input.status = "returned" THEN Some(t) ELSE item.returnedAt]
       IN [threw |-> FALSE, store |-> [its EXCEPT ![index] = updated], nextId |-> nextId,
           item |-> updated]

Res_deleteReservation(its, nextId, id) ==
  LET index == findIndex(its, id) IN
  IF index = 0
  THEN [threw |-> TRUE, thrown |-> Error("Reservation " \o id \o " not found")]
  ELSE [threw |-> FALSE, store |-> splice(its, index), nextId |-> nextId]

\* -------------------------------------------------- FakeInventoryService
Inv_listInventoryItems(its) ==
  [threw |-> FALSE, items |-> its, totalCount |-> Len(its)]

\* nextId(): this.idCounter += 1; `dev_${this.idCounter}`
Inv_nextId(idCounter) == "dev_" \o ToString(idCounter + 1)

\* addInventoryItem that puts the new device last
Inv_addInventoryItem_pushes(its, idCounter, input, t) ==
  LET item == [id |-> Inv_nextId(idCounter),
               name |-> input.name,
               description |-> input.description,
               count |-> Some(Nullish(input.count, 1)),
               updatedAt |-> t]
  IN [threw |-> FALSE, store |-> Append(its, item), nextId |-> idCounter + 1, item |-> item]

Inv_addInventoryItem(its, idCounter, input, t) ==
  LET item == [id |-> Inv_nextId(idCounter),
               name |-> input.name,
               description |-> input.description,
               count |-> Some(Nullish(input.count, 1)),
               updatedAt |-> t]
  IN [threw |-> FALSE, store |-> <<item>> \o its, nextId |-> idCounter + 1, item |-> item]

Inv_updateInventoryItem(its, idCounter, id, input, t) ==
  LET index == findIndex(its, id) IN
  IF index = 0
  THEN [threw |-> TRUE, thrown |-> Error("Device with id " \o id \o " not found")]
  ELSE LET existing == its[index]
           updated == [id |-> existing.id,
                       name |-> Nullish(input.name, existing.name),
                       description |-> Nullish(input.description, existing.description),
                       count |-> IF input.count = undefined THEN existing.count ELSE input.count,
                       updatedAt |-> t]
       IN [threw |-> FALSE, store |-> [its EXCEPT ![index] = updated], nextId |-> idCounter,
           item |-> updated]

\* deleteInventoryItem without the index check: splice(-1, 1) drops the last item
Inv_deleteInventoryItem_unchecked(its, idCounter, id) ==
  LET index == findIndex(its, id) IN
  IF index = 0
  THEN [threw |-> FALSE, store |-> SubSeq(its, 1, Len(its) - 1), nextId |-> idCounter]
  ELSE [threw |-> FALSE, store |-> splice(its, index), nextId |-> idCounter]

Inv_deleteInventoryItem(its, idCounter, id) ==
  LET index == findIndex(its, id) IN
  IF index = 0
  THEN [threw |-> TRUE, thrown |-> Error("Device with id " \o id \o " not found")]
  ELSE [threw |-> FALSE, store |-> splice(its, index), nextId |-> idCounter]

\* ------------------------------------------------------------- use cases
\* out is what the awaited service call gave: a value, or a thrown value
\* (out.threw).  Each use case turns it into a result and never throws.

listInventory(out) ==
  IF ~out.threw
  THEN [success |-> TRUE, items |-> out.items, totalCount |-> out.totalCount]
  ELSE [success |-> FALSE, errors |-> <<MessageOrString(out.thrown)>>]

\* addInventory that leaves the default of the count to the service
addInventory_input_passes(command) ==
  [name |-> command.name, description |-> command.description, count |-> command.count]

\* the input addInventory hands to the service: count: command.count ?? 1
addInventory_input(command) ==
  [name |-> command.name, description |-> command.description,
   count |-> Some(Nullish(command.count, 1))]

addInventory(out) ==
  IF ~out.threw
  THEN [success |-> TRUE, item |-> out.item]
  ELSE [success |-> FALSE, errors |-> <<MessageOrString(out.thrown)>>]

\* updateInventory that forwards a field when it is truthy: count 0 is dropped
updateInventory_input_truthy(command) ==
  [name |-> command.name, description |-> command.description,
   count |-> IF command.count = Some(0) THEN undefined ELSE command.count]

\* the input updateInventory hands to the service: only the supplied fields
updateInventory_input(command) ==
  [name |-> command.name, description |-> command.description, count |-> command.count]

updateInventory(out) ==
  IF ~out.threw
  THEN [success |-> TRUE, item |-> out.item]
  ELSE [success |-> FALSE, errors |-> <<MessageOrString(out.thrown)>>]

\* deleteInventory that reports the caught value twice
deleteInventory_twoMessages(out) ==
  IF ~out.threw
  THEN [success |-> TRUE]
  ELSE [success |-> FALSE,
        errors |-> <<MessageOrString(out.thrown), "Failed to delete inventory item">>]

deleteInventory(out) ==
  IF ~out.threw
  THEN [success |-> TRUE]
  ELSE [success |-> FALSE, errors |-> <<MessageOrString(out.thrown)>>]

listReservations(out) ==
  IF ~out.threw
  THEN [success |-> TRUE, items |-> out.items, totalCount |-> out.totalCount]
  ELSE [success |-> FALSE,
        errors |-> <<MessageOrFallback(out.thrown, "Failed to list reservations")>>]

createReservation(out) ==
  IF ~out.threw
  THEN [success |-> TRUE, item |-> out.item]
  ELSE [success |-> FALSE,
        errors |-> <<MessageOrFallback(out.thrown, "Failed to create reservation")>>]

updateReservationStatus(out) ==
  IF ~out.threw
  THEN [success |-> TRUE, item |-> out.item]
  ELSE [success |-> FALSE,
        errors |-> <<MessageOrFallback(out.thrown, "Failed to update reservation status")>>]

deleteReservation(out) ==
  IF ~out.threw
  THEN [success |-> TRUE]
  ELSE [success |-> FALSE,
        errors |-> <<MessageOrFallback(out.thrown, "Failed to delete reservation")>>]

\* ----------------------------------------------------------------- inputs
\* How the injected `uses` function of a container behaves on one call:
\*   useCase  - the use case runs over the service; the service call works
\*              (fault absent) or rejects with the fault, leaving the store
\*              as it is (a transport failure);
\*   resolves - a stubbed use case resolves to the given failure result;
\*   rejects  - a stubbed use case rejects with the given value.
Hows ==
  { [kind |-> "useCase", fault |-> undefined],
    [kind |-> "useCase", fault |-> Some(Error("network down"))],
    [kind |-> "resolves", result |-> [success |-> FALSE, errors |-> <<"boom", "bad">>]],
    [kind |-> "rejects", thrown |-> Error("exploded")],
    [kind |-> "rejects", thrown |-> NonError("oops")] }

\* the service call of a use case under `how`: the fault when there is one
ServiceCall(how, out) ==
  IF how.fault = undefined THEN out
  ELSE [threw |-> TRUE, thrown |-> how.fault[1]]

seedDevice ==
  [id |-> "dev_1", name |-> "Laptop", description |-> "Dell XPS", count |-> Some(5),
   updatedAt |-> 0]

seedReservation ==
  [id |-> "res-1", userId |-> "user-1", deviceModelId |-> "device-1",
   deviceModelName |-> "Laptop", status |-> "reserved", createdAt |-> 0, updatedAt |-> 0,
   collectedAt |-> undefined, returnedAt |-> undefined]

\* the lists a fake service is constructed with
InitialDevices == { <<>>, <<seedDevice>> }
InitialReservations == { <<>>, <<seedReservation>> }

\* ids a command may name: stored ones and one that is never stored
DeviceIds == {"dev_1", "dev_2", "dev_404"}
ReservationIds == {"res-1", "res-2", "res-404"}

AddInventoryCommands ==
  { [name |-> "Monitor", description |-> "4K", count |-> undefined] }

UpdateInventoryCommands ==
  { [id |-> "dev_1", name |-> undefined, description |-> undefined, count |-> Some(7)],
    [id |-> "dev_2", name |-> Some("Updated"), description |-> undefined, count |-> undefined],
    [id |-> "dev_404", name |-> undefined, description |-> undefined, count |-> Some(7)] }

DeleteInventoryCommands == { [id |-> i] : i \in DeviceIds }

StatusFilters == { undefined, Some(<<"reserved">>) }

CreateReservationCommands == { [deviceModelId |-> "dev_1", deviceModelName |-> "Laptop"] }

UpdateReservationStatusCommands ==
  { [id |-> "res-1", status |-> s] : s \in ReservationStatus }
  \cup { [id |-> "res-404", status |-> "collected"] }

DeleteReservationCommands == { [id |-> i] : i \in ReservationIds }

\* what window.prompt gives handleEdit, after Number(): cancelled, a value
\* that is not an integer (NaN, 1.5), or an integer
PromptAnswers ==
  { [cancelled |-> TRUE], [cancelled |-> FALSE, isInteger |-> FALSE] }
  \cup { [cancelled |-> FALSE, isInteger |-> TRUE, value |-> n] : n \in {-1, 7} }

\* ------------------------------------------------------------------ state
VARIABLES
  domain,       \* "inventory" or "reservations": the container followed
  svcItems,     \* the service's items
  svcNextId,    \* the service's id counter (idCounter / nextId)
  now,          \* the last value new Date() gave
  items,        \* container refs
  totalCount,
  loading,
  adding,       \* adding (useInventory) / creating (useReservations)
  updating,
  deleting,
  error,
  pending,      \* per operation kind, the use-case calls issued and not settled
  calls,        \* use-case calls issued so far
  limit,        \* the number of use-case calls the behaviour is cut at
  last,         \* the last step: "start" (an operation passed its guard), "return" (an
                \* invocation returned at its guard), the kind of the call that settled,
                \* or "view" (a write by the view)
  failedSinceStart, \* an operation settled with a failure after the last operation start
  http,         \* the call of an HTTP service method being followed (see HttpSpec)
  uc,           \* the call of a use case being followed (see UseCaseSpec)
  mem           \* the arrays a fake service and its caller hold (see FakeSpec)

containerVars == <<domain, svcItems, svcNextId, now, items, totalCount, loading, adding,
                   updating, deleting, error, pending, calls, limit, last, failedSinceStart>>
\* the state of the layers a container behaviour does not follow
otherVars == <<http, uc, mem>>
vars == <<containerVars, otherVars>>
svcVars == <<svcItems, svcNextId, now>>
refVars == <<items, totalCount, loading, adding, updating, deleting, error>>

Kinds == {"fetch", "add", "update", "remove"}

InitWith(maxCalls) ==
  /\ limit = maxCalls
  /\ domain \in {"inventory", "reservations"}
  /\ svcItems \in (IF domain = "inventory" THEN InitialDevices ELSE InitialReservations)
  /\ svcNextId = (IF domain = "inventory" THEN Len(svcItems) ELSE 1)
  /\ now = 0
  /\ items = <<>>
  /\ totalCount = 0
  /\ loading = FALSE
  /\ adding = FALSE
  /\ updating = FALSE
  /\ deleting = FALSE
  /\ error = null
  /\ pending = [k \in Kinds |-> <<>>]
  /\ calls = 0
  /\ last = "start"
  /\ failedSinceStart = FALSE
  /\ http = [op |-> "none"]
  /\ uc = [service |-> "none", useCase |-> "none"]
  /\ mem = [service |-> "none"]

Init == InitWith(MaxCalls)

\* the values new Date() may give next: time does not run backwards
Dates == {now, now + 1}

\* `if (flag.value) return;` taken: nothing of the container changes
Returns ==
  /\ last' = "return"
  /\ UNCHANGED <<domain, limit, svcVars, refVars, pending, calls, failedSinceStart>>

\* `if (flag.value) return;` taken: nothing but the return happens
Return == Returns /\ UNCHANGED otherVars

\* the awaited use-case call is recorded with what it will settle to
Await(kind, command, settles) ==
  /\ calls < limit
  /\ calls' = calls + 1
  /\ last' = "start"
  /\ failedSinceStart' = FALSE
  /\ pending' = [pending EXCEPT ![kind] = Append(@, [command |-> command, settles |-> settles])]

\* the call settles to success:false or to a thrown exception
Failed(settles) == settles.rejected \/ ~settles.result.success

Resolved(result) == [rejected |-> FALSE, result |-> result]
Rejected(thrown) == [rejected |-> TRUE, thrown |-> thrown]

\* what the `uses` call settles to: the use case's result, or the stub's
Settles(how, useCaseResult) ==
  IF how.kind = "useCase" THEN Resolved(useCaseResult)
  ELSE IF how.kind = "resolves" THEN Resolved(how.result)
  ELSE Rejected(how.thrown)

\* the service as a mutating call under `how` leaves it; out is the call's
\* outcome and t the date it read
ServiceAfter(how, out, t) ==
  IF how.kind = "useCase" /\ ~out.threw
  THEN /\ svcItems' = out.store
       /\ svcNextId' = out.nextId
       /\ now' = t
  ELSE UNCHANGED svcVars

\* ------------------------------------------------------------ useInventory
\* fetchItems without `if (loading.value) return;`
Inv_fetchItems_unguarded ==
  /\ domain = "inventory"
  /\ \E how \in Hows :
       LET out == ServiceCall(how, Inv_listInventoryItems(svcItems))
       IN /\ loading' = TRUE
          /\ error' = null
          /\ Await("fetch", undefined, Settles(how, listInventory(out)))
          /\ UNCHANGED <<otherVars, domain, limit, svcVars, items, totalCount, adding, updating, deleting>>

Inv_fetchItems ==
  /\ domain = "inventory"
  /\ IF loading THEN Return
     ELSE \E how \in Hows :
            LET out == ServiceCall(how, Inv_listInventoryItems(svcItems))
            IN /\ loading' = TRUE
               /\ error' = null
               /\ Await("fetch", undefined, Settles(how, listInventory(out)))
               /\ UNCHANGED <<otherVars, domain, limit, svcVars, items, totalCount, adding, updating, deleting>>

\* fetchItems that discards a list lacking an item the container holds
Inv_fetchItems_settled_newerWins ==
  /\ domain = "inventory"
  /\ \E i \in 1..Len(pending.fetch) :
       LET settles == pending.fetch[i].settles IN
       /\ IF ~settles.rejected
          THEN IF settles.result.success
               THEN /\ IF \E k \in 1..Len(items) :
                            \A j \in 1..Len(settles.result.items) :
                               settles.result.items[j] # items[k]
                       THEN UNCHANGED <<items, totalCount>>
                       ELSE /\ items' = settles.result.items
                            /\ totalCount' = settles.result.totalCount
                    /\ UNCHANGED error
               ELSE /\ error' = Some(Join(settles.result.errors))
                    /\ items' = <<>>
                    /\ totalCount' = 0
          ELSE /\ error' = Some(MessageOrString(settles.thrown))
               /\ items' = <<>>
               /\ totalCount' = 0
       /\ loading' = FALSE
       /\ pending' = [pending EXCEPT !.fetch = splice(@, i)]
       /\ failedSinceStart' = (failedSinceStart \/ Failed(settles))
       /\ last' = "fetch"
       /\ UNCHANGED <<otherVars, domain, limit, svcVars, calls, adding, updating, deleting>>
Inv_fetchItems_settled ==
  /\ domain = "inventory"
  /\ \E i \in 1..Len(pending.fetch) :
       LET settles == pending.fetch[i].settles IN
       /\ IF ~settles.rejected
          THEN IF settles.result.success
               THEN /\ items' = settles.result.items
                    /\ totalCount' = settles.result.totalCount
                    /\ UNCHANGED error
               ELSE /\ error' = Some(Join(settles.result.errors))
                    /\ items' = <<>>
                    /\ totalCount' = 0
          ELSE /\ error' = Some(MessageOrString(settles.thrown))
               /\ items' = <<>>
               /\ totalCount' = 0
       /\ loading' = FALSE
       /\ pending' = [pending EXCEPT !.fetch = splice(@, i)]
       /\ failedSinceStart' = (failedSinceStart \/ Failed(settles))
       /\ last' = "fetch"
       /\ UNCHANGED <<otherVars, domain, limit, svcVars, calls, adding, updating, deleting>>

Inv_add ==
  /\ domain = "inventory"
  /\ \E command \in AddInventoryCommands :
       IF adding THEN Return
       ELSE \E how \in Hows, t \in Dates :
              LET out == ServiceCall(how, Inv_addInventoryItem(svcItems, svcNextId,
                                                                addInventory_input(command), t))
              IN /\ adding' = TRUE
                 /\ error' = null
                 /\ Await("add", command, Settles(how, addInventory(out)))
                 /\ ServiceAfter(how, out, t)
                 /\ UNCHANGED <<otherVars, domain, limit, items, totalCount, loading, updating, deleting>>

Inv_add_settled ==
  /\ domain = "inventory"
  /\ \E i \in 1..Len(pending.add) :
       LET settles == pending.add[i].settles IN
       /\ IF ~settles.rejected
          THEN IF settles.result.success
               THEN /\ items' = <<settles.result.item>> \o items
                    /\ totalCount' = Max(totalCount + 1, Len(items'))
                    /\ UNCHANGED error
               ELSE /\ error' = Some(Join(settles.result.errors))
                    /\ UNCHANGED <<items, totalCount>>
          ELSE /\ error' = Some(MessageOrString(settles.thrown))
               /\ UNCHANGED <<items, totalCount>>
       /\ adding' = FALSE
       /\ pending' = [pending EXCEPT !.add = splice(@, i)]
       /\ failedSinceStart' = (failedSinceStart \/ Failed(settles))
       /\ last' = "add"
       /\ UNCHANGED <<otherVars, domain, limit, svcVars, calls, loading, updating, deleting>>

\* update(command), the body of updateItem
Inv_update(command) ==
  IF updating THEN Return
  ELSE \E how \in Hows, t \in Dates :
         LET out == ServiceCall(how, Inv_updateInventoryItem(svcItems, svcNextId, command.id,
                                                             updateInventory_input(command), t))
         IN /\ updating' = TRUE
            /\ error' = null
            /\ Await("update", command, Settles(how, updateInventory(out)))
            /\ ServiceAfter(how, out, t)
            /\ UNCHANGED <<otherVars, domain, limit, items, totalCount, loading, adding, deleting>>

Inv_updateItem ==
  /\ domain = "inventory"
  /\ \E command \in UpdateInventoryCommands : Inv_update(command)

\* update whose map lacks the id test
Inv_update_settled_anyId ==
  /\ domain = "inventory"
  /\ \E i \in 1..Len(pending.update) :
       LET settles == pending.update[i].settles IN
       /\ IF ~settles.rejected
          THEN IF settles.result.success
               THEN /\ items' = [k \in 1..Len(items) |->
                                   settles.result.item]
                    /\ UNCHANGED error
               ELSE /\ error' = Some(Join(settles.result.errors))
                    /\ UNCHANGED items
          ELSE /\ error' = Some(MessageOrString(settles.thrown))
               /\ UNCHANGED items
       /\ updating' = FALSE
       /\ pending' = [pending EXCEPT !.update = splice(@, i)]
       /\ failedSinceStart' = (failedSinceStart \/ Failed(settles))
       /\ last' = "update"
       /\ UNCHANGED <<otherVars, domain, limit, svcVars, calls, totalCount, loading, adding, deleting>>
Inv_update_settled ==
  /\ domain = "inventory"
  /\ \E i \in 1..Len(pending.update) :
       LET settles == pending.update[i].settles IN
       /\ IF ~settles.rejected
          THEN IF settles.result.success
               THEN /\ items' = [k \in 1..Len(items) |->
                                   IF items[k].id = settles.result.item.id
                                   THEN settles.result.item ELSE items[k]]
                    /\ UNCHANGED error
               ELSE /\ error' = Some(Join(settles.result.errors))
                    /\ UNCHANGED items
          ELSE /\ error' = Some(MessageOrString(settles.thrown))
               /\ UNCHANGED items
       /\ updating' = FALSE
       /\ pending' = [pending EXCEPT !.update = splice(@, i)]
       /\ failedSinceStart' = (failedSinceStart \/ Failed(settles))
       /\ last' = "update"
       /\ UNCHANGED <<otherVars, domain, limit, svcVars, calls, totalCount, loading, adding, deleting>>

Inv_remove ==
  /\ domain = "inventory"
  /\ \E command \in DeleteInventoryCommands :
       IF deleting THEN Return
       ELSE \E how \in Hows :
              LET out == ServiceCall(how, Inv_deleteInventoryItem(svcItems, svcNextId, command.id))
              IN /\ deleting' = TRUE
                 /\ error' = null
                 /\ Await("remove", command, Settles(how, deleteInventory(out)))
                 /\ ServiceAfter(how, out, now)
                 /\ UNCHANGED <<otherVars, domain, limit, items, totalCount, loading, adding, updating>>

\* remove whose flag is cleared after the try block instead of in finally
Inv_remove_settled_noFinally ==
  /\ domain = "inventory"
  /\ \E i \in 1..Len(pending.remove) :
       LET settles == pending.remove[i].settles
           command == pending.remove[i].command
           keep(d) == d.id # command.id
       IN
       /\ IF ~settles.rejected
          THEN /\ IF settles.result.success
                  THEN /\ items' = SelectSeq(items, keep)
                       /\ totalCount' = Max(totalCount - 1, Len(items'))
                       /\ UNCHANGED error
                  ELSE /\ error' = Some(Join(settles.result.errors))
                       /\ UNCHANGED <<items, totalCount>>
               /\ deleting' = FALSE
          ELSE /\ error' = Some(MessageOrString(settles.thrown))
               /\ UNCHANGED <<items, totalCount, deleting>>
       /\ pending' = [pending EXCEPT !.remove = splice(@, i)]
       /\ failedSinceStart' = (failedSinceStart \/ Failed(settles))
       /\ last' = "remove"
       /\ UNCHANGED <<otherVars, domain, limit, svcVars, calls, loading, adding, updating>>

Inv_remove_settled ==
  /\ domain = "inventory"
  /\ \E i \in 1..Len(pending.remove) :
       LET settles == pending.remove[i].settles
           command == pending.remove[i].command
           keep(d) == d.id # command.id
       IN
       /\ IF ~settles.rejected
          THEN IF settles.result.success
               THEN /\ items' = SelectSeq(items, keep)
                    /\ totalCount' = Max(totalCount - 1, Len(items'))
                    /\ UNCHANGED error
               ELSE /\ error' = Some(Join(settles.result.errors))
                    /\ UNCHANGED <<items, totalCount>>
          ELSE /\ error' = Some(MessageOrString(settles.thrown))
               /\ UNCHANGED <<items, totalCount>>
       /\ deleting' = FALSE
       /\ pending' = [pending EXCEPT !.remove = splice(@, i)]
       /\ failedSinceStart' = (failedSinceStart \/ Failed(settles))
       /\ last' = "remove"
       /\ UNCHANGED <<otherVars, domain, limit, svcVars, calls, loading, adding, updating>>

\* -------------------------------------------------------- useReservations
\* fetchItems(statusFilter) up to its await, on the container's own state
Res_fetchItems_with(statusFilter) ==
  IF loading THEN Returns
  ELSE \E how \in Hows :
         LET out == ServiceCall(how, Res_listReservations(svcItems, statusFilter))
         IN /\ loading' = TRUE
            /\ error' = null
            /\ Await("fetch", statusFilter, Settles(how, listReservations(out)))
            /\ UNCHANGED <<domain, limit, svcVars, items, totalCount, adding, updating, deleting>>

Res_fetchItems ==
  /\ domain = "reservations"
  /\ \E statusFilter \in StatusFilters : Res_fetchItems_with(statusFilter)
  /\ UNCHANGED otherVars

\* fetchItems whose failure paths leave items and totalCount alone
Res_fetchItems_settled_keepsItems ==
  /\ domain = "reservations"
  /\ \E i \in 1..Len(pending.fetch) :
       LET settles == pending.fetch[i].settles IN
       /\ IF ~settles.rejected
          THEN IF settles.result.success
               THEN /\ items' = settles.result.items
                    /\ totalCount' = settles.result.totalCount
                    /\ UNCHANGED error
               ELSE /\ error' = Some(Join(settles.result.errors))
                    /\ UNCHANGED <<items, totalCount>>
          ELSE /\ error' = Some(MessageOrString(settles.thrown))
               /\ UNCHANGED <<items, totalCount>>
       /\ loading' = FALSE
       /\ pending' = [pending EXCEPT !.fetch = splice(@, i)]
       /\ failedSinceStart' = (failedSinceStart \/ Failed(settles))
       /\ last' = "fetch"
       /\ UNCHANGED <<otherVars, domain, limit, svcVars, calls, adding, updating, deleting>>
Res_fetchItems_settled ==
  /\ domain = "reservations"
  /\ \E i \in 1..Len(pending.fetch) :
       LET settles == pending.fetch[i].settles IN
       /\ IF ~settles.rejected
          THEN IF settles.result.success
               THEN /\ items' = settles.result.items
                    /\ totalCount' = settles.result.totalCount
                    /\ UNCHANGED error
               ELSE /\ error' = Some(Join(settles.result.errors))
                    /\ items' = <<>>
                    /\ totalCount' = 0
          ELSE /\ error' = Some(MessageOrString(settles.thrown))
               /\ items' = <<>>
               /\ totalCount' = 0
       /\ loading' = FALSE
       /\ pending' = [pending EXCEPT !.fetch = splice(@, i)]
       /\ failedSinceStart' = (failedSinceStart \/ Failed(settles))
       /\ last' = "fetch"
       /\ UNCHANGED <<otherVars, domain, limit, svcVars, calls, adding, updating, deleting>>

\* create(command) up to its await, on the container's own state
Res_create_with(command) ==
  IF adding THEN Returns
  ELSE \E how \in Hows, t \in Dates :
         LET out == ServiceCall(how, Res_createReservation(svcItems, svcNextId, command, t))
         IN /\ adding' = TRUE
            /\ error' = null
            /\ Await("add", command, Settles(how, createReservation(out)))
            /\ ServiceAfter(how, out, t)
            /\ UNCHANGED <<domain, limit, items, totalCount, loading, updating, deleting>>

Res_create ==
  /\ domain = "reservations"
  /\ \E command \in CreateReservationCommands : Res_create_with(command)
  /\ UNCHANGED otherVars

\* create that puts the new reservation last, in the order the service keeps
Res_create_settled_appends ==
  /\ domain = "reservations"
  /\ \E i \in 1..Len(pending.add) :
       LET settles == pending.add[i].settles IN
       /\ IF ~settles.rejected
          THEN IF settles.result.success
               THEN /\ items' = Append(items, settles.result.item)
                    /\ totalCount' = Max(totalCount + 1, Len(items'))
                    /\ UNCHANGED error
               ELSE /\ error' = Some(Join(settles.result.errors))
                    /\ UNCHANGED <<items, totalCount>>
          ELSE /\ error' = Some(MessageOrString(settles.thrown))
               /\ UNCHANGED <<items, totalCount>>
       /\ adding' = FALSE
       /\ pending' = [pending EXCEPT !.add = splice(@, i)]
       /\ failedSinceStart' = (failedSinceStart \/ Failed(settles))
       /\ last' = "add"
       /\ UNCHANGED <<otherVars, domain, limit, svcVars, calls, loading, updating, deleting>>
Res_create_settled ==
  /\ domain = "reservations"
  /\ \E i \in 1..Len(pending.add) :
       LET settles == pending.add[i].settles IN
       /\ IF ~settles.rejected
          THEN IF settles.result.success
               THEN /\ items' = <<settles.result.item>> \o items
                    /\ totalCount' = Max(totalCount + 1, Len(items'))
                    /\ UNCHANGED error
               ELSE /\ error' = Some(Join(settles.result.errors))
                    /\ UNCHANGED <<items, totalCount>>
          ELSE /\ error' = Some(MessageOrString(settles.thrown))
               /\ UNCHANGED <<items, totalCount>>
       /\ adding' = FALSE
       /\ pending' = [pending EXCEPT !.add = splice(@, i)]
       /\ failedSinceStart' = (failedSinceStart \/ Failed(settles))
       /\ last' = "add"
       /\ UNCHANGED <<otherVars, domain, limit, svcVars, calls, loading, updating, deleting>>

Res_updateStatusFn ==
  /\ domain = "reservations"
  /\ \E command \in UpdateReservationStatusCommands :
       IF updating THEN Return
       ELSE \E how \in Hows, t \in Dates :
              LET out == ServiceCall(how, Res_updateReservationStatus(svcItems, svcNextId, command.id,
                                                                      [status |-> command.status], t))
              IN /\ updating' = TRUE
                 /\ error' = null
                 /\ Await("update", command, Settles(how, updateReservationStatus(out)))
                 /\ ServiceAfter(how, out, t)
                 /\ UNCHANGED <<otherVars, domain, limit, items, totalCount, loading, adding, deleting>>

\* updateStatus whose failure paths empty items as a failed fetch does
Res_updateStatusFn_settled_resets ==
  /\ domain = "reservations"
  /\ \E i \in 1..Len(pending.update) :
       LET settles == pending.update[i].settles IN
       /\ IF ~settles.rejected
          THEN IF settles.result.success
               THEN /\ items' = [k \in 1..Len(items) |->
                                   IF items[k].id = settles.result.item.id
                                   THEN settles.result.item ELSE items[k]]
                    /\ UNCHANGED error
               ELSE /\ error' = Some(Join(settles.result.errors))
                    /\ items' = <<>>
          ELSE /\ error' = Some(MessageOrString(settles.thrown))
               /\ items' = <<>>
       /\ updating' = FALSE
       /\ pending' = [pending EXCEPT !.update = splice(@, i)]
       /\ failedSinceStart' = (failedSinceStart \/ Failed(settles))
       /\ last' = "update"
       /\ UNCHANGED <<otherVars, domain, limit, svcVars, calls, totalCount, loading, adding, deleting>>
Res_updateStatusFn_settled ==
  /\ domain = "reservations"
  /\ \E i \in 1..Len(pending.update) :
       LET settles == pending.update[i].settles IN
       /\ IF ~settles.rejected
          THEN IF settles.result.success
               THEN /\ items' = [k \in 1..Len(items) |->
                                   IF items[k].id = settles.result.item.id
                                   THEN settles.result.item ELSE items[k]]
                    /\ UNCHANGED error
               ELSE /\ error' = Some(Join(settles.result.errors))
                    /\ UNCHANGED items
          ELSE /\ error' = Some(MessageOrString(settles.thrown))
               /\ UNCHANGED items
       /\ updating' = FALSE
       /\ pending' = [pending EXCEPT !.update = splice(@, i)]
       /\ failedSinceStart' = (failedSinceStart \/ Failed(settles))
       /\ last' = "update"
       /\ UNCHANGED <<otherVars, domain, limit, svcVars, calls, totalCount, loading, adding, deleting>>

Res_remove ==
  /\ domain = "reservations"
  /\ \E command \in DeleteReservationCommands :
       IF deleting THEN Return
       ELSE \E how \in Hows :
              LET out == ServiceCall(how, Res_deleteReservation(svcItems, svcNextId, command.id))
              IN /\ deleting' = TRUE
                 /\ error' = null
                 /\ Await("remove", command, Settles(how, deleteReservation(out)))
                 /\ ServiceAfter(how, out, now)
                 /\ UNCHANGED <<otherVars, domain, limit, items, totalCount, loading, adding, updating>>

\* remove that decrements totalCount without the Math.max
Res_remove_settled_noMax ==
  /\ domain = "reservations"
  /\ \E i \in 1..Len(pending.remove) :
       LET settles == pending.remove[i].settles
           command == pending.remove[i].command
           keep(r) == r.id # command.id
       IN
       /\ IF ~settles.rejected
          THEN IF settles.result.success
               THEN /\ items' = SelectSeq(items, keep)
                    /\ totalCount' = totalCount - 1
                    /\ UNCHANGED error
               ELSE /\ error' = Some(Join(settles.result.errors))
                    /\ UNCHANGED <<items, totalCount>>
          ELSE /\ error' = Some(MessageOrString(settles.thrown))
               /\ UNCHANGED <<items, totalCount>>
       /\ deleting' = FALSE
       /\ pending' = [pending EXCEPT !.remove = splice(@, i)]
       /\ failedSinceStart' = (failedSinceStart \/ Failed(settles))
       /\ last' = "remove"
       /\ UNCHANGED <<otherVars, domain, limit, svcVars, calls, loading, adding, updating>>
Res_remove_settled ==
  /\ domain = "reservations"
  /\ \E i \in 1..Len(pending.remove) :
       LET settles == pending.remove[i].settles
           command == pending.remove[i].command
           keep(r) == r.id # command.id
       IN
       /\ IF ~settles.rejected
          THEN IF settles.result.success
               THEN /\ items' = SelectSeq(items, keep)
                    /\ totalCount' = Max(totalCount - 1, Len(items'))
                    /\ UNCHANGED error
               ELSE /\ error' = Some(Join(settles.result.errors))
                    /\ UNCHANGED <<items, totalCount>>
          ELSE /\ error' = Some(MessageOrString(settles.thrown))
               /\ UNCHANGED <<items, totalCount>>
       /\ deleting' = FALSE
       /\ pending' = [pending EXCEPT !.remove = splice(@, i)]
       /\ failedSinceStart' = (failedSinceStart \/ Failed(settles))
       /\ last' = "remove"
       /\ UNCHANGED <<otherVars, domain, limit, svcVars, calls, loading, adding, updating>>

\* ----------------------------------------------------- ListInventory view
\* handleEdit(item) on a card of the list; the list is rendered when the
\* container is neither loading nor in error, and the card's buttons are
\* disabled while deleting or updating
ListInventory_handleEdit ==
  /\ domain = "inventory"
  /\ ~loading /\ error = null /\ ~(deleting \/ updating)
  /\ \E k \in 1..Len(items), answer \in PromptAnswers :
       IF answer.cancelled
       THEN UNCHANGED vars
       ELSE IF ~answer.isInteger \/ answer.value < 0
       THEN /\ error' = Some("Count must be a non-negative whole number")
            /\ last' = "view"
            /\ UNCHANGED <<otherVars, domain, limit, svcVars, items, totalCount, loading, adding, updating,
                           deleting, pending, calls, failedSinceStart>>
       ELSE Inv_update([id |-> items[k].id, name |-> undefined, description |-> undefined,
                        count |-> Some(answer.value)])

NextContainer ==
  \/ Inv_fetchItems
  \/ Inv_fetchItems_settled
  \/ Inv_add
  \/ Inv_add_settled
  \/ Inv_updateItem
  \/ Inv_update_settled
  \/ Inv_remove
  \/ Inv_remove_settled
  \/ Res_fetchItems
  \/ Res_fetchItems_settled
  \/ Res_create
  \/ Res_create_settled
  \/ Res_updateStatusFn
  \/ Res_updateStatusFn_settled
  \/ Res_remove
  \/ Res_remove_settled
  \/ ListInventory_handleEdit

Spec == Init /\ [][NextContainer]_vars

\* every awaited use-case call eventually settles
Settling ==
  /\ WF_vars(Inv_fetchItems_settled) /\ WF_vars(Inv_add_settled)
  /\ WF_vars(Inv_update_settled) /\ WF_vars(Inv_remove_settled)
  /\ WF_vars(Res_fetchItems_settled) /\ WF_vars(Res_create_settled)
  /\ WF_vars(Res_updateStatusFn_settled) /\ WF_vars(Res_remove_settled)

LiveInit == InitWith(MaxLiveCalls)

LiveSpec == LiveInit /\ [][NextContainer]_vars /\ Settling

\* ------------------------------------------------- use cases on their own
\* calls of use cases, per behaviour of UseCaseSpec
MaxUseCaseCalls == 2

\* what the service method does on one call: it works (undefined), or it
\* rejects with an Error or with a value that is not an Error (given by what
\* String() makes of it)
Faults ==
  { undefined, Some(Error("network down")), Some(NonError("oops")), Some(NonError("42")) }

\* the filters listReservations is called with: those of the containers, an
\* empty one and one of two statuses
UseCaseStatusFilters ==
  StatusFilters \cup { Some(<<>>), Some(<<"collected", "returned">>) }

\* a reservation that was collected
collectedReservation ==
  [seedReservation EXCEPT !.id = "res-2", !.status = "collected", !.collectedAt = Some(0)]

\* the lists a FakeReservationService is constructed with, one of them with
\* reservations of two statuses
UseCaseInitialReservations ==
  InitialReservations \cup { <<seedReservation, collectedReservation>> }

\* the inputs of addInventoryItem: count omitted, zero, positive, negative
\* (the type of count is number)
AddDeviceInputs ==
  { [name |-> "Monitor", description |-> "4K", count |-> c] :
      c \in {undefined, Some(0), Some(3), Some(-1)} }

\* the commands addInventory is called with: an AddInventoryCommand has the
\* fields of an AddDeviceInput
UseCaseAddCommands == AddInventoryCommands \cup AddDeviceInputs

\* the commands updateInventory is called with: those of the containers, one
\* that sets the count to 0, one that supplies every field, one with a
\* negative count
UseCaseUpdateCommands ==
  UpdateInventoryCommands
  \cup { [id |-> "dev_1", name |-> undefined, description |-> undefined, count |-> Some(0)],
         [id |-> "dev_1", name |-> Some("Renamed"), description |-> Some("Refurbished"),
          count |-> Some(3)],
         [id |-> "dev_1", name |-> undefined, description |-> undefined, count |-> Some(-1)] }

UseCaseHows == { [kind |-> "useCase", fault |-> f] : f \in Faults }

\* the variables a use-case call leaves alone, the service apart
ucFrame == <<domain, limit, items, totalCount, loading, adding, updating, deleting, error,
             pending, last, failedSinceStart, http, mem>>

\* one call of a use case: the command it was given, the input it handed to
\* the service method, what the service did (fault) and gave (out), and what
\* the use case's promise settles to
UseCaseCall(useCase, command, input, how, out, result) ==
  /\ calls < limit
  /\ calls' = calls + 1
  /\ uc' = [service |-> uc.service, useCase |-> useCase, command |-> command,
            input |-> input, fault |-> how.fault, out |-> out,
            settles |-> Resolved(result)]
  /\ UNCHANGED ucFrame

UC_listInventory ==
  /\ uc.service = "inventory"
  /\ \E how \in UseCaseHows :
       LET out == ServiceCall(how, Inv_listInventoryItems(svcItems))
       IN /\ UseCaseCall("listInventory", undefined, undefined, how,
                         out, listInventory(out))
          /\ UNCHANGED svcVars

UC_addInventory ==
  /\ uc.service = "inventory"
  /\ \E command \in UseCaseAddCommands, how \in UseCaseHows, t \in Dates :
       LET out == ServiceCall(how, Inv_addInventoryItem(svcItems, svcNextId,
                                                         addInventory_input(command), t))
       IN /\ UseCaseCall("addInventory", command, addInventory_input(command), how,
                         out, addInventory(out))
          /\ ServiceAfter(how, out, t)

\* addInventoryItem called on the fake service itself, as its tests do
Svc_addInventoryItem ==
  /\ uc.service = "inventory"
  /\ calls < limit
  /\ \E input \in AddDeviceInputs, t \in Dates :
       LET out == Inv_addInventoryItem(svcItems, svcNextId, input, t)
       IN /\ uc' = [service |-> uc.service, useCase |-> "none", method |-> "addInventoryItem",
                    input |-> input, out |-> out]
          /\ svcItems' = out.store
          /\ svcNextId' = out.nextId
          /\ now' = t
  /\ calls' = calls + 1
  /\ UNCHANGED ucFrame

UC_updateInventory ==
  /\ uc.service = "inventory"
  /\ \E command \in UseCaseUpdateCommands, how \in UseCaseHows, t \in Dates :
       LET out == ServiceCall(how, Inv_updateInventoryItem(svcItems, svcNextId, command.id,
                                                            updateInventory_input(command), t))
       IN /\ UseCaseCall("updateInventory", command, updateInventory_input(command), how,
                         out, updateInventory(out))
          /\ ServiceAfter(how, out, t)

UC_deleteInventory ==
  /\ uc.service = "inventory"
  /\ \E command \in DeleteInventoryCommands, how \in UseCaseHows :
       LET out == ServiceCall(how, Inv_deleteInventoryItem(svcItems, svcNextId, command.id))
       IN /\ UseCaseCall("deleteInventory", command, command.id, how,
                         out, deleteInventory(out))
          /\ ServiceAfter(how, out, now)

UC_listReservations ==
  /\ uc.service = "reservations"
  /\ \E statusFilter \in UseCaseStatusFilters, how \in UseCaseHows :
       LET out == ServiceCall(how, Res_listReservations(svcItems, statusFilter))
       IN /\ UseCaseCall("listReservations", statusFilter, statusFilter, how,
                         out, listReservations(out))
          /\ UNCHANGED svcVars

UC_createReservation ==
  /\ uc.service = "reservations"
  /\ \E command \in CreateReservationCommands, how \in UseCaseHows, t \in Dates :
       LET out == ServiceCall(how, Res_createReservation(svcItems, svcNextId, command, t))
       IN /\ UseCaseCall("createReservation", command, command, how,
                         out, createReservation(out))
          /\ ServiceAfter(how, out, t)

UC_updateReservationStatus ==
  /\ uc.service = "reservations"
  /\ \E command \in UpdateReservationStatusCommands, how \in UseCaseHows, t \in Dates :
       LET out == ServiceCall(how, Res_updateReservationStatus(svcItems, svcNextId, command.id,
                                                                [status |-> command.status], t))
       IN /\ UseCaseCall("updateReservationStatus", command, [status |-> command.status], how,
                         out, updateReservationStatus(out))
          /\ ServiceAfter(how, out, t)

UC_deleteReservation ==
  /\ uc.service = "reservations"
  /\ \E command \in DeleteReservationCommands, how \in UseCaseHows :
       LET out == ServiceCall(how, Res_deleteReservation(svcItems, svcNextId, command.id))
       IN /\ UseCaseCall("deleteReservation", command, command.id, how,
                         out, deleteReservation(out))
          /\ ServiceAfter(how, out, now)

UseCaseInit ==
  /\ limit = MaxUseCaseCalls
  /\ domain = "none"
  /\ uc \in { [service |-> s, useCase |-> "none"] : s \in {"inventory", "reservations"} }
  /\ svcItems \in (IF uc.service = "inventory" THEN InitialDevices
                   ELSE UseCaseInitialReservations)
  /\ svcNextId = (IF uc.service = "inventory" THEN Len(svcItems) ELSE 1)
  /\ now = 0
  /\ items = <<>>
  /\ totalCount = 0
  /\ loading = FALSE
  /\ adding = FALSE
  /\ updating = FALSE
  /\ deleting = FALSE
  /\ error = null
  /\ pending = [k \in Kinds |-> <<>>]
  /\ calls = 0
  /\ last = "start"
  /\ failedSinceStart = FALSE
  /\ http = [op |-> "none"]
  /\ mem = [service |-> "none"]

NextUseCase ==
  \/ UC_listInventory
  \/ UC_addInventory
  \/ Svc_addInventoryItem
  \/ UC_updateInventory
  \/ UC_deleteInventory
  \/ UC_listReservations
  \/ UC_createReservation
  \/ UC_updateReservationStatus
  \/ UC_deleteReservation

UseCaseSpec == UseCaseInit /\ [][NextUseCase]_vars

\* ------------------------------------------------------------ retry.ts
\* defaultRetryOptions
attempts == 3
baseDelayMs == 500
maxDelayMs == 4000

\* isRetryableHttpStatus that stops at 599
isRetryableHttpStatus_5xx(status) == status = 408 \/ status = 429 \/ status \in 500..599

isRetryableHttpStatus(status) == status = 408 \/ status = 429 \/ status >= 500

\* the values Math.random() is drawn from, in hundredths
Randoms == {0, 99}

RECURSIVE Pow2(_)
Pow2(n) == IF n = 0 THEN 1 ELSE 2 * Pow2(n - 1)

\* computeBackoffDelayMs without Math.min(maxDelayMs, ...)
computeBackoffDelayMs_uncapped(attemptIndexZeroBased, base, max, hundredths) ==
  LET exp == base * Pow2(attemptIndexZeroBased)
  IN (2 * exp * (500 + hundredths) + 500) \div 1000

\* Math.round(exp + exp * (0.2 * random)) with random = hundredths / 100
computeBackoffDelayMs(attemptIndexZeroBased, base, max, hundredths) ==
  LET scaled == base * Pow2(attemptIndexZeroBased)
      exp == IF max <= scaled THEN max ELSE scaled
  IN (2 * exp * (500 + hundredths) + 500) \div 1000

\* a thrown Error of the given class
HttpError(name, message) == [isError |-> TRUE, name |-> name, message |-> message]

toLowerCaseChar(c) ==
  CASE c = "A" -> "a" [] c = "B" -> "b" [] c = "C" -> "c" [] c = "D" -> "d"
    [] c = "E" -> "e" [] c = "F" -> "f" [] c = "G" -> "g" [] c = "H" -> "h"
    [] c = "I" -> "i" [] c = "J" -> "j" [] c = "K" -> "k" [] c = "L" -> "l"
    [] c = "M" -> "m" [] c = "N" -> "n" [] c = "O" -> "o" [] c = "P" -> "p"
    [] c = "Q" -> "q" [] c = "R" -> "r" [] c = "S" -> "s" [] c = "T" -> "t"
    [] c = "U" -> "u" [] c = "V" -> "v" [] c = "W" -> "w" [] c = "X" -> "x"
    [] c = "Y" -> "y" [] c = "Z" -> "z" [] OTHER -> c

\* the character of text at position i, in lower case
toLowerCase(text, i) == toLowerCaseChar(SubSeq(text, i, i))

\* the pattern (written in lower case) occurs in text, letter case ignored
includes(text, needle) ==
  \E i \in 1..(Len(text) - Len(needle) + 1) :
    \A j \in 1..Len(needle) : toLowerCase(text, i + j - 1) = SubSeq(needle, j, j)

\* /failed to fetch|networkerror|load failed|fetch/i.test(message)
networkPattern(message) ==
  \/ includes(message, "failed to fetch")
  \/ includes(message, "networkerror")
  \/ includes(message, "load failed")
  \/ includes(message, "fetch")

isLikelyNetworkError(err) ==
  IF err.isError /\ err.name = "TypeError" THEN TRUE
  ELSE IF ~err.isError THEN FALSE
  ELSE networkPattern(err.message)

\* ------------------------------------------------ HttpReservationService
\* What fetch() gives: a Response (status, statusText, body), or a thrown
\* value.  A body is given by what reading it as JSON gives.
Response(status, statusText, body) ==
  [threw |-> FALSE, response |-> [status |-> status, statusText |-> statusText, body |-> body]]
FetchThrows(thrown) == [threw |-> TRUE, thrown |-> thrown]

statusTextOf(status) ==
  CASE status = 200 -> "OK"
    [] status = 404 -> "Not Found"
    [] status = 408 -> "Request Timeout"
    [] status = 429 -> "Too Many Requests"
    [] status = 500 -> "Internal Server Error"
    [] status = 503 -> "Service Unavailable"

\* res.ok
ok(res) == res.status >= 200 /\ res.status <= 299

\* a date string: an ISO string, given by the instant it denotes, or text
\* that denotes no date; new Date(s) for a string that denotes a date
Iso(n) == [valid |-> TRUE, iso |-> n]
notADate == [valid |-> FALSE]
newDate(s) == s.iso

seedReservationDto ==
  [isNull |-> FALSE, id |-> "res-1", userId |-> "user-1", deviceModelId |-> "device-1",
   deviceModelName |-> "Laptop", status |-> "collected", createdAt |-> Iso(0),
   updatedAt |-> Iso(1), collectedAt |-> Some(Iso(1)), returnedAt |-> undefined]

\* the JSON value null
jsonNull == [isNull |-> TRUE]

\* bodies of a response that is not ok: no JSON, or {error: {message}}
ErrorBodies ==
  { [kind |-> "unparseable"],
    [kind |-> "error", message |-> "Reservation store offline"],
    [kind |-> "error", message |-> "Could not fetch reservations"] }

\* bodies of a 2xx list response: an array of reservations, an array holding
\* null, text that is not JSON, an object
OkListBodies ==
  { [kind |-> "array", elements |-> <<seedReservationDto>>],
    [kind |-> "array", elements |-> <<seedReservationDto, jsonNull>>],
    [kind |-> "unparseable"],
    [kind |-> "object"] }

HttpErrorStatuses == {404, 408, 429, 503}

\* the values fetch() rejects with
FetchFailures ==
  { HttpError("TypeError", "Failed to fetch"),
    HttpError("Error", "socket hang up"),
    NonError("aborted") }

ListReplies ==
  { Response(200, statusTextOf(200), b) : b \in OkListBodies }
  \cup { Response(st, statusTextOf(st), b) : st \in HttpErrorStatuses, b \in ErrorBodies }
  \cup { FetchThrows(e) : e \in FetchFailures }

parseReservation(data) ==
  [id |-> data.id, userId |-> data.userId, deviceModelId |-> data.deviceModelId,
   deviceModelName |-> data.deviceModelName, status |-> data.status,
   createdAt |-> newDate(data.createdAt), updatedAt |-> newDate(data.updatedAt),
   collectedAt |-> IF data.collectedAt # undefined THEN Some(newDate(data.collectedAt[1]))
                   ELSE undefined,
   returnedAt |-> IF data.returnedAt # undefined THEN Some(newDate(data.returnedAt[1]))
                  ELSE undefined]

\* errorData?.error?.message || `${res.status} ${res.statusText}`
errorMessageOf(res) ==
  IF res.body.kind = "error" /\ res.body.message # "" THEN res.body.message
  ELSE ToString(res.status) \o " " \o res.statusText

\* statusFilter.join(',')
RECURSIVE joinComma(_)
joinComma(list) ==
  IF Len(list) = 0 THEN ""
  ELSE IF Len(list) = 1 THEN list[1]
  ELSE list[1] \o "," \o joinComma(Tail(list))

\* the use case that called the service method op, applied to what it gave
UseCaseOver(op, out) ==
  CASE op = "listReservations" -> listReservations(out)
    [] op = "createReservation" -> createReservation(out)
    [] op = "updateReservationStatus" -> updateReservationStatus(out)
    [] op = "deleteReservation" -> deleteReservation(out)
    [] op = "listInventoryItems" -> listInventory(out)
    [] op = "addInventoryItem" -> addInventory(out)
    [] op = "updateInventoryItem" -> updateInventory(out)
    [] op = "deleteInventoryItem" -> deleteInventory(out)

\* the service method ends with out, and the use case with its result
HttpEnds(h, out) ==
  [h EXCEPT !.pc = "done", !.out = Some(out), !.result = Some(UseCaseOver(h.op, out))]

\* options.authTokenProvider: absent, or a function whose promise resolves
\* to a token, to the empty string, to null, or rejects
TokenProviders ==
  { [kind |-> "absent"],
    [kind |-> "resolves", token |-> Some("abc")],
    [kind |-> "resolves", token |-> Some("")],
    [kind |-> "resolves", token |-> null],
    [kind |-> "rejects"] }

\* the options a service is constructed with (options.headers, when given,
\* hold no Authorization)
HttpOptions == { [provider |-> p, telemetry |-> t] : p \in TokenProviders, t \in BOOLEAN }

\* getHeaders / authHeaders without the catch: a provider that rejects makes
\* the await of the headers reject
authHeaders_rethrows(provider) ==
  [threw |-> provider.kind = "rejects",
   thrown |-> HttpError("Error", "token unavailable"),
   Authorization |-> IF /\ provider.kind = "resolves"
                        /\ provider.token # null
                        /\ provider.token[1] # ""
                     THEN Some("Bearer " \o provider.token[1])
                     ELSE undefined]

\* getHeaders / authHeaders: the Authorization header of the request; a
\* provider that rejects is caught and logged, so the await of the headers
\* never rejects
authHeaders(provider) ==
  [threw |-> FALSE,
   thrown |-> HttpError("Error", "token unavailable"),
   Authorization |-> IF /\ provider.kind = "resolves"
                        /\ provider.token # null
                        /\ provider.token[1] # ""
                     THEN Some("Bearer " \o provider.token[1])
                     ELSE undefined]

\* toAddDeviceRequestDto; a request DTO holds each key as present or absent,
\* as JSON.stringify writes it
toAddDeviceRequestDto(input) ==
  [name |-> Some(input.name), description |-> Some(input.description),
   count |-> Some(Nullish(input.count, 1))]

\* toUpdateDeviceRequestDto
toUpdateDeviceRequestDto(input) ==
  [name |-> input.name, description |-> input.description, count |-> input.count]

\* this.telemetry.trackEvent(name) without the ?. : a TypeError ends the call
\* of a service that has no sink
trackEvent_unguarded(h, name) ==
  IF h.options.telemetry THEN [h EXCEPT !.events = Append(@, name)]
  ELSE HttpEnds(h, [threw |-> TRUE,
                    thrown |-> HttpError("TypeError",
                      "Cannot read properties of undefined (reading 'trackEvent')")])

\* this.trackEvent(name): this.telemetry?.trackEvent(name)
trackEvent(h, name) ==
  IF h.options.telemetry THEN [h EXCEPT !.events = Append(@, name)] ELSE h

\* this.trackException(err): nothing without telemetry
trackException(h, err) ==
  IF h.options.telemetry THEN [h EXCEPT !.events = Append(@, "exception")] ELSE h

\* this.trackDependency(name, url, started, success, res?.status)
trackDependency(h, success) ==
  IF h.options.telemetry
  THEN [h EXCEPT !.dependencies =
          Append(@, [name |-> h.method \o " " \o h.url, success |-> success,
                     responseCode |-> IF h.lastRes = undefined THEN undefined
                                      ELSE Some(h.lastRes[1].status)])]
  ELSE h

\* the method's outer catch: trackException(err); throw err
HttpThrows(h, err) ==
  HttpEnds(trackException(h, err), [threw |-> TRUE, thrown |-> err])

\* the use case invokes the service method op (once), which has sent nothing
\* yet; the headers are those the request will carry
HttpInvoked(op, method, url, body) ==
  [op |-> op, options |-> http.options, method |-> method, url |-> url, input |-> undefined,
   body |-> body,
   headers |-> authHeaders(http.options.provider), sent |-> <<>>,
   pc |-> "fetch", attempt |-> 1, requests |-> 0, invocations |-> 1,
   waits |-> <<>>, replies |-> <<>>, lastRes |-> undefined, delayMs |-> 0,
   events |-> <<>>, dependencies |-> <<>>, out |-> undefined, result |-> undefined]

\* the calls of method op a caller may make, each as it stands before its
\* first fetch: the method, the URL and the body of its request
HttpInvocations(op) ==
  CASE op = "listReservations" ->
         { HttpInvoked(op, "GET",
                       IF statusFilter # undefined /\ Len(statusFilter[1]) > 0
                       THEN "api/reservations?status=" \o joinComma(statusFilter[1])
                       ELSE "api/reservations",
                       undefined) : statusFilter \in StatusFilters }
    [] op = "createReservation" ->
         { HttpInvoked(op, "POST", "api/reservations", Some(input)) :
             input \in CreateReservationCommands }
    [] op = "updateReservationStatus" ->
         { HttpInvoked(op, "PATCH", "api/reservations/" \o id \o "/status",
                       Some([status |-> "collected"])) : id \in ReservationIds }
    [] op = "deleteReservation" ->
         { HttpInvoked(op, "DELETE", "api/reservations/" \o id, undefined) :
             id \in ReservationIds }
    [] op = "listInventoryItems" ->
         { HttpInvoked(op, "GET", "/api/devices", undefined) }
    [] op = "addInventoryItem" ->
         { [HttpInvoked(op, "POST", "/api/devices", Some(toAddDeviceRequestDto(input)))
              EXCEPT !.input = Some(input)] : input \in AddDeviceInputs }
    [] op = "updateInventoryItem" ->
         { [HttpInvoked(op, "PATCH", "/api/devices/" \o command.id,
                        Some(toUpdateDeviceRequestDto(updateInventory_input(command))))
              EXCEPT !.input = Some([id |-> command.id,
                                       input |-> updateInventory_input(command)])] :
             command \in UseCaseUpdateCommands }
    [] op = "deleteInventoryItem" ->
         { HttpInvoked(op, "DELETE", "/api/devices/" \o id, undefined) : id \in DeviceIds }

\* fetch(url, {method, headers, body}) settles with reply
HttpSent(h, reply) ==
  [h EXCEPT !.requests = @ + 1,
            !.sent = Append(@, [method |-> h.method, url |-> h.url, headers |-> h.headers,
                                body |-> h.body]),
            !.replies = Append(@, reply),
            !.lastRes = IF reply.threw THEN @ ELSE Some(reply.response)]

HttpRes_listReservations ==
  /\ http.op = "idle"
  /\ http' \in HttpInvocations("listReservations")
  /\ UNCHANGED <<containerVars, uc, mem>>

\* the fetch of an attempt settles; what follows up to the sleep or the end
\* listReservations that throws a new Error in place of the one caught
HttpRes_listReservations_fetch_settled_wraps ==
  /\ http.op = "listReservations" /\ http.pc = "fetch"
  /\ \E reply \in ListReplies, random \in Randoms :
       LET sent == HttpSent(http, reply)
           retrying == [trackEvent(sent, "reservations_fetch_retry")
                          EXCEPT !.pc = "sleep",
                                 !.delayMs = computeBackoffDelayMs(http.attempt - 1, baseDelayMs,
                                                                   maxDelayMs, random)]
           caught(err) == IF http.attempt < attempts /\ isLikelyNetworkError(err)
                          THEN retrying
                          ELSE HttpThrows(sent, HttpError("Error", "Failed to list reservations"))
           res == reply.response
       IN http' =
            IF http.headers.threw THEN HttpThrows(http, http.headers.thrown)
            ELSE IF reply.threw THEN caught(reply.thrown)
            ELSE IF ~ok(res) /\ isRetryableHttpStatus(res.status) /\ http.attempt < attempts
            THEN retrying
            ELSE IF ~ok(res)
            THEN caught(HttpError("Error", "Failed to list reservations: " \o errorMessageOf(res)))
            ELSE IF res.body.kind = "unparseable"
            THEN caught(HttpError("SyntaxError", "Unexpected token < in JSON at position 0"))
            ELSE IF res.body.kind # "array"
            THEN HttpEnds(sent, [threw |-> FALSE, items |-> <<>>, totalCount |-> 0])
            ELSE IF \E k \in 1..Len(res.body.elements) : res.body.elements[k].isNull
            THEN caught(HttpError("TypeError", "Cannot read properties of null (reading 'id')"))
            ELSE LET its == [k \in 1..Len(res.body.elements) |->
                               parseReservation(res.body.elements[k])]
                 IN HttpEnds(sent, [threw |-> FALSE, items |-> its, totalCount |-> Len(its)])
  /\ UNCHANGED <<containerVars, uc, mem>>

\* the call h of listReservations once the fetch of an attempt has settled
\* with reply: what follows up to the sleep or the end
listReservations_fetched(h, reply, random) ==
  LET sent == HttpSent(h, reply)
      retrying == [trackEvent(sent, "reservations_fetch_retry")
                     EXCEPT !.pc = "sleep",
                            !.delayMs = computeBackoffDelayMs(h.attempt - 1, baseDelayMs,
                                                              maxDelayMs, random)]
      caught(err) == IF h.attempt < attempts /\ isLikelyNetworkError(err)
                     THEN retrying
                     ELSE HttpThrows(sent, err)
      res == reply.response
  IN IF h.headers.threw THEN HttpThrows(h, h.headers.thrown)
     ELSE IF reply.threw THEN caught(reply.thrown)
     ELSE IF ~ok(res) /\ isRetryableHttpStatus(res.status) /\ h.attempt < attempts
     THEN retrying
     ELSE IF ~ok(res)
     THEN caught(HttpError("Error", "Failed to list reservations: " \o errorMessageOf(res)))
     ELSE IF res.body.kind = "unparseable"
     THEN caught(HttpError("SyntaxError", "Unexpected token < in JSON at position 0"))
     ELSE IF res.body.kind # "array"
     THEN HttpEnds(sent, [threw |-> FALSE, items |-> <<>>, totalCount |-> 0])
     ELSE IF \E k \in 1..Len(res.body.elements) : res.body.elements[k].isNull
     THEN caught(HttpError("TypeError", "Cannot read properties of null (reading 'id')"))
     ELSE LET its == [k \in 1..Len(res.body.elements) |->
                        parseReservation(res.body.elements[k])]
          IN HttpEnds(sent, [threw |-> FALSE, items |-> its, totalCount |-> Len(its)])

HttpRes_listReservations_fetch_settled ==
  /\ http.op = "listReservations" /\ http.pc = "fetch"
  /\ \E reply \in ListReplies, random \in Randoms :
       http' = listReservations_fetched(http, reply, random)
  /\ UNCHANGED <<containerVars, uc, mem>>

\* the sleep before the next attempt settles; the code after the loop runs
\* when the loop condition fails
listReservations_slept(h) ==
  LET slept == [h EXCEPT !.waits = Append(@, h.delayMs), !.attempt = @ + 1]
  IN IF slept.attempt <= attempts THEN [slept EXCEPT !.pc = "fetch"]
     ELSE IF /\ slept.lastRes # undefined
             /\ ~ok(slept.lastRes[1])
             /\ isRetryableHttpStatus(slept.lastRes[1].status)
     THEN HttpThrows(slept, HttpError("Error",
            "Reservations service temporarily unavailable ("
            \o ToString(slept.lastRes[1].status) \o "). Please try again in a moment."))
     ELSE HttpThrows(slept, HttpError("Error", "Failed to list reservations"))

HttpRes_listReservations_sleep_settled ==
  /\ http.op = "listReservations" /\ http.pc = "sleep"
  /\ http' = listReservations_slept(http)
  /\ UNCHANGED <<containerVars, uc, mem>>

\* bodies of a 2xx response to create / update: a reservation, null, text
\* that is not JSON
OkItemBodies ==
  { [kind |-> "object", data |-> seedReservationDto],
    [kind |-> "object", data |-> jsonNull],
    [kind |-> "unparseable"] }

ItemReplies ==
  { Response(200, statusTextOf(200), b) : b \in OkItemBodies }
  \cup { Response(st, statusTextOf(st), b) : st \in HttpErrorStatuses, b \in ErrorBodies }
  \cup { FetchThrows(e) : e \in FetchFailures }

\* the one request of createReservation, updateReservationStatus (which read
\* the reservation in the body) and deleteReservation (which reads no body)
\* a method that sends the request again after a likely network error
HttpRes_single_settled_resends(failedTo, readsBody) ==
  /\ http.pc = "fetch"
  /\ \E reply \in ItemReplies :
       LET sent == HttpSent(http, reply)
           res == reply.response
       IN http' =
            IF http.headers.threw THEN HttpThrows(http, http.headers.thrown)
            ELSE IF reply.threw /\ isLikelyNetworkError(reply.thrown) /\ sent.requests < attempts
            THEN sent
            ELSE IF reply.threw THEN HttpThrows(sent, reply.thrown)
            ELSE IF ~ok(res)
            THEN HttpThrows(sent, HttpError("Error", failedTo \o ": " \o errorMessageOf(res)))
            ELSE IF ~readsBody THEN HttpEnds(sent, [threw |-> FALSE])
            ELSE IF res.body.kind = "unparseable"
            THEN HttpThrows(sent, HttpError("SyntaxError", "Unexpected token < in JSON at position 0"))
            ELSE IF res.body.data.isNull
            THEN HttpThrows(sent, HttpError("TypeError", "Cannot read properties of null (reading 'id')"))
            ELSE HttpEnds(sent, [threw |-> FALSE, item |-> parseReservation(res.body.data)])
  /\ UNCHANGED <<containerVars, uc, mem>>

\* the call h of createReservation, updateReservationStatus or
\* deleteReservation once its fetch has settled with reply
Res_single_fetched(h, reply, failedTo, readsBody) ==
  LET sent == HttpSent(h, reply)
      res == reply.response
  IN IF h.headers.threw THEN HttpThrows(h, h.headers.thrown)
     ELSE IF reply.threw THEN HttpThrows(sent, reply.thrown)
     ELSE IF ~ok(res)
     THEN HttpThrows(sent, HttpError("Error", failedTo \o ": " \o errorMessageOf(res)))
     ELSE IF ~readsBody THEN HttpEnds(sent, [threw |-> FALSE])
     ELSE IF res.body.kind = "unparseable"
     THEN HttpThrows(sent, HttpError("SyntaxError", "Unexpected token < in JSON at position 0"))
     ELSE IF res.body.data.isNull
     THEN HttpThrows(sent, HttpError("TypeError", "Cannot read properties of null (reading 'id')"))
     ELSE HttpEnds(sent, [threw |-> FALSE, item |-> parseReservation(res.body.data)])

HttpRes_single_settled(failedTo, readsBody) ==
  /\ http.pc = "fetch"
  /\ \E reply \in ItemReplies : http' = Res_single_fetched(http, reply, failedTo, readsBody)
  /\ UNCHANGED <<containerVars, uc, mem>>

HttpRes_createReservation ==
  /\ http.op = "idle"
  /\ http' \in HttpInvocations("createReservation")
  /\ UNCHANGED <<containerVars, uc, mem>>

HttpRes_createReservation_settled ==
  /\ http.op = "createReservation"
  /\ HttpRes_single_settled("Failed to create reservation", TRUE)

HttpRes_updateReservationStatus ==
  /\ http.op = "idle"
  /\ http' \in HttpInvocations("updateReservationStatus")
  /\ UNCHANGED <<containerVars, uc, mem>>

HttpRes_updateReservationStatus_settled ==
  /\ http.op = "updateReservationStatus"
  /\ HttpRes_single_settled("Failed to update reservation status", TRUE)

HttpRes_deleteReservation ==
  /\ http.op = "idle"
  /\ http' \in HttpInvocations("deleteReservation")
  /\ UNCHANGED <<containerVars, uc, mem>>

HttpRes_deleteReservation_settled ==
  /\ http.op = "deleteReservation"
  /\ HttpRes_single_settled("Failed to delete reservation", FALSE)

\* -------------------------------------------------- HttpInventoryService
seedDeviceDto ==
  [isArray |-> FALSE, id |-> "dev_1", name |-> "Laptop", description |-> "Dell XPS",
   count |-> Some(5), updatedAt |-> Some(Iso(0))]

\* three devices, as the service's tests list them
threeDeviceDtos ==
  <<[seedDeviceDto EXCEPT !.id = "dev_3", !.name = "Tablet"],
    seedDeviceDto,
    [seedDeviceDto EXCEPT !.id = "dev_2", !.name = "Camera", !.count = Some(0)]>>

\* a JSON object body with the members the service looks at
JsonBody(errors, data, item, count) ==
  [kind |-> "json", isArray |-> FALSE, errors |-> errors, data |-> data, item |-> item,
   count |-> count, updatedAt |-> undefined]

JsonArray(elements) == [isArray |-> TRUE, elements |-> elements, updatedAt |-> undefined]

\* a body that is the device itself
rawDeviceBody ==
  [kind |-> "json", isArray |-> FALSE, errors |-> undefined, data |-> undefined,
   item |-> undefined, id |-> "dev_9", name |-> "Mouse", description |-> "Wireless",
   count |-> Some(2), updatedAt |-> Some(Iso(1))]

\* a JSON string, where a device is looked for
jsonString == [kind |-> "string"]

\* typeof v === 'object' for a v that is not null: objects and arrays
isObject(v) == "isArray" \in DOMAIN v

\* bodies of a 2xx response: empty text, text that is not JSON, objects, an
\* object whose item is a string, the array [], the text null
OkInventoryBodies ==
  { [kind |-> "empty"],
    [kind |-> "unparseable"],
    JsonBody(Some(<<"quota exceeded", "try later">>), undefined, undefined, undefined),
    JsonBody(undefined, Some(JsonArray(<<seedDeviceDto>>)), undefined, Some(7)),
    JsonBody(undefined, Some(JsonArray(<<seedDeviceDto>>)), undefined, Some(0)),
    JsonBody(undefined, Some(JsonArray(threeDeviceDtos)), undefined, Some(5)),
    JsonBody(undefined, Some(JsonArray(threeDeviceDtos)), undefined, undefined),
    JsonBody(undefined, undefined, Some(seedDeviceDto), undefined),
    JsonBody(undefined, Some(seedDeviceDto), undefined, undefined),
    rawDeviceBody,
    JsonBody(undefined, undefined, Some(jsonString), undefined),
    [JsonBody(undefined, undefined, undefined, undefined) EXCEPT !.isArray = TRUE],
    [kind |-> "null"],
    JsonBody(undefined,
             Some(JsonArray(<<[seedDeviceDto EXCEPT !.updatedAt = Some(notADate)]>>)),
             undefined, undefined) }

\* bodies of a response that is not ok: JSON {message}, text, no text
InventoryErrorBodies ==
  { [kind |-> "json", message |-> Some("Device store offline")],
    [kind |-> "unparseableJson"],
    [kind |-> "text", text |-> "upstream timeout"] }

InventoryReplies ==
  { Response(200, statusTextOf(200), b) : b \in OkInventoryBodies }
  \cup { Response(st, statusTextOf(st), b) : st \in HttpErrorStatuses, b \in InventoryErrorBodies }
  \cup { FetchThrows(e) : e \in FetchFailures }

\* the message ensureOk throws with
ensureOkMessage(res) ==
  LET message == ToString(res.status) \o " " \o res.statusText
  IN IF res.body.kind = "json" /\ res.body.message # undefined
     THEN message \o " - " \o res.body.message[1]
     ELSE IF res.body.kind = "text" /\ res.body.text # ""
     THEN message \o " - " \o res.body.text
     ELSE message

\* toDate(dto.updatedAt) throws
toDateThrows(dto) == dto.updatedAt = undefined \/ ~dto.updatedAt[1].valid

toDomainDevice(dto) ==
  [id |-> dto.id, name |-> dto.name, description |-> dto.description, count |-> dto.count,
   updatedAt |-> newDate(dto.updatedAt[1])]

\* the value parseJson gives for a body that parses: {} for empty text
parsedBody(body) ==
  IF body.kind = "empty" THEN JsonBody(undefined, undefined, undefined, undefined) ELSE body

\* listInventoryItems that counts the items it mapped, whatever body.count
readList_countsItems(body) ==
  IF body.kind = "null"
  THEN [threw |-> TRUE,
        thrown |-> HttpError("TypeError", "Cannot read properties of null (reading 'errors')")]
  ELSE IF body.errors # undefined /\ Len(body.errors[1]) > 0
  THEN [threw |-> TRUE, thrown |-> HttpError("Error", Join(body.errors[1]))]
  ELSE LET dtos == IF body.data # undefined /\ body.data[1].isArray
                   THEN body.data[1].elements ELSE <<>>
       IN IF \E k \in 1..Len(dtos) : toDateThrows(dtos[k])
          THEN [threw |-> TRUE, thrown |-> HttpError("Error", "Invalid updatedAt date")]
          ELSE [threw |-> FALSE,
                items |-> [k \in 1..Len(dtos) |-> toDomainDevice(dtos[k])],
                totalCount |-> Len(dtos)]

\* what a method makes of the body of an ok response: out.threw with the
\* Error thrown, or the value returned
readList(body) ==
  IF body.kind = "null"
  THEN [threw |-> TRUE,
        thrown |-> HttpError("TypeError", "Cannot read properties of null (reading 'errors')")]
  ELSE IF body.errors # undefined /\ Len(body.errors[1]) > 0
  THEN [threw |-> TRUE, thrown |-> HttpError("Error", Join(body.errors[1]))]
  ELSE LET dtos == IF body.data # undefined /\ body.data[1].isArray
                   THEN body.data[1].elements ELSE <<>>
       IN IF \E k \in 1..Len(dtos) : toDateThrows(dtos[k])
          THEN [threw |-> TRUE, thrown |-> HttpError("Error", "Invalid updatedAt date")]
          ELSE [threw |-> FALSE,
                items |-> [k \in 1..Len(dtos) |-> toDomainDevice(dtos[k])],
                totalCount |-> IF body.count # undefined THEN body.count[1] ELSE Len(dtos)]

\* addInventoryItem / updateInventoryItem after parseJson: body is raw when
\* raw is an object, {} otherwise; the item is body.item ?? body.data ?? raw;
\* add takes an array for no item, update does not
readItem(raw, op) ==
  LET body == IF isObject(raw) THEN raw
              ELSE JsonBody(undefined, undefined, undefined, undefined)
  IN IF body.errors # undefined /\ Len(body.errors[1]) > 0
     THEN [threw |-> TRUE, thrown |-> HttpError("Error", Join(body.errors[1]))]
     ELSE LET itemSource == IF body.item # undefined THEN body.item[1]
                            ELSE IF body.data # undefined THEN body.data[1]
                            ELSE raw
              itemDto == IF op = "addInventoryItem"
                         THEN IF isObject(itemSource) /\ ~itemSource.isArray
                              THEN Some(itemSource) ELSE undefined
                         ELSE IF isObject(itemSource) THEN Some(itemSource) ELSE undefined
          IN IF itemDto = undefined
             THEN [threw |-> TRUE,
                   thrown |-> HttpError("Error",
                                IF op = "addInventoryItem" THEN "Malformed add device response"
                                ELSE "Malformed update device response")]
             ELSE IF toDateThrows(itemDto[1])
             THEN [threw |-> TRUE, thrown |-> HttpError("Error", "Invalid updatedAt date")]
             ELSE [threw |-> FALSE, item |-> toDomainDevice(itemDto[1])]

\* the events a method tracks on its way out: in catch and finally, or on
\* success and in finally
\* the telemetry of an inventory method: its event on success; the exception
\* and the failure event in the catch; the dependency in the finally
InventoryEvents(h, out, succeeded, failed) ==
  trackDependency(IF out.threw THEN trackEvent(trackException(h, out.thrown), failed)
                  ELSE trackEvent(h, succeeded),
                  ~out.threw)

\* the call h of an HttpInventoryService method once its request has settled
\* with reply
Inv_single_fetched(h, reply, op, succeeded, failed) ==
  LET sent == HttpSent(h, reply)
      res == reply.response
      out == IF h.headers.threw THEN [threw |-> TRUE, thrown |-> h.headers.thrown]
             ELSE IF reply.threw THEN [threw |-> TRUE, thrown |-> reply.thrown]
             ELSE IF ~ok(res)
             THEN [threw |-> TRUE, thrown |-> HttpError("Error", ensureOkMessage(res))]
             ELSE IF op = "deleteInventoryItem" THEN [threw |-> FALSE]
             ELSE IF res.body.kind = "unparseable"
             THEN [threw |-> TRUE, thrown |-> HttpError("Error", "Invalid JSON response")]
             ELSE IF op = "listInventoryItems" THEN readList(parsedBody(res.body))
             ELSE readItem(parsedBody(res.body), op)
  IN HttpEnds(InventoryEvents(IF h.headers.threw THEN h ELSE sent, out, succeeded, failed), out)

\* the one request of an HttpInventoryService method settles
HttpInv_single_settled(op, succeeded, failed) ==
  /\ http.pc = "fetch"
  /\ \E reply \in InventoryReplies :
       http' = Inv_single_fetched(http, reply, op, succeeded, failed)
  /\ UNCHANGED <<containerVars, uc, mem>>

HttpInv_listInventoryItems ==
  /\ http.op = "idle"
  /\ http' \in HttpInvocations("listInventoryItems")
  /\ UNCHANGED <<containerVars, uc, mem>>

HttpInv_listInventoryItems_settled ==
  /\ http.op = "listInventoryItems"
  /\ HttpInv_single_settled("listInventoryItems", "inventory_fetch", "inventory_fetch_failed")

HttpInv_addInventoryItem ==
  /\ http.op = "idle"
  /\ http' \in HttpInvocations("addInventoryItem")
  /\ UNCHANGED <<containerVars, uc, mem>>

HttpInv_addInventoryItem_settled ==
  /\ http.op = "addInventoryItem"
  /\ HttpInv_single_settled("addInventoryItem", "inventory_add", "inventory_add_failed")

HttpInv_updateInventoryItem ==
  /\ http.op = "idle"
  /\ http' \in HttpInvocations("updateInventoryItem")
  /\ UNCHANGED <<containerVars, uc, mem>>

HttpInv_updateInventoryItem_settled ==
  /\ http.op = "updateInventoryItem"
  /\ HttpInv_single_settled("updateInventoryItem", "inventory_update", "inventory_update_failed")

HttpInv_deleteInventoryItem ==
  /\ http.op = "idle"
  /\ http' \in HttpInvocations("deleteInventoryItem")
  /\ UNCHANGED <<containerVars, uc, mem>>

HttpInv_deleteInventoryItem_settled ==
  /\ http.op = "deleteInventoryItem"
  /\ HttpInv_single_settled("deleteInventoryItem", "inventory_delete", "inventory_delete_failed")

\* ------------------------------------------------ one call over HTTP
HttpInit ==
  /\ http \in { [op |-> "idle", options |-> o] : o \in HttpOptions }
  /\ uc = [service |-> "none", useCase |-> "none"]
  /\ mem = [service |-> "none"]
  /\ limit = 0
  /\ domain = "none"
  /\ svcItems = <<>>
  /\ svcNextId = 0
  /\ now = 0
  /\ items = <<>>
  /\ totalCount = 0
  /\ loading = FALSE
  /\ adding = FALSE
  /\ updating = FALSE
  /\ deleting = FALSE
  /\ error = null
  /\ pending = [k \in Kinds |-> <<>>]
  /\ calls = 0
  /\ last = "start"
  /\ failedSinceStart = FALSE

NextHttp ==
  \/ HttpRes_listReservations
  \/ HttpRes_listReservations_fetch_settled
  \/ HttpRes_listReservations_sleep_settled
  \/ HttpRes_createReservation
  \/ HttpRes_createReservation_settled
  \/ HttpRes_updateReservationStatus
  \/ HttpRes_updateReservationStatus_settled
  \/ HttpRes_deleteReservation
  \/ HttpRes_deleteReservation_settled
  \/ HttpInv_listInventoryItems
  \/ HttpInv_listInventoryItems_settled
  \/ HttpInv_addInventoryItem
  \/ HttpInv_addInventoryItem_settled
  \/ HttpInv_updateInventoryItem
  \/ HttpInv_updateInventoryItem_settled
  \/ HttpInv_deleteInventoryItem
  \/ HttpInv_deleteInventoryItem_settled

HttpSpec == HttpInit /\ [][NextHttp]_vars

\* the promise a call awaits (a fetch or a sleep) settles; a call awaits one
\* promise at a time, so at most one of these is enabled
HttpSettle ==
  \/ HttpRes_listReservations_fetch_settled
  \/ HttpRes_listReservations_sleep_settled
  \/ HttpRes_createReservation_settled
  \/ HttpRes_updateReservationStatus_settled
  \/ HttpRes_deleteReservation_settled
  \/ HttpInv_listInventoryItems_settled
  \/ HttpInv_addInventoryItem_settled
  \/ HttpInv_updateInventoryItem_settled
  \/ HttpInv_deleteInventoryItem_settled

\* every fetch and every sleep settles
HttpSettling == WF_vars(HttpSettle)

HttpLiveSpec == HttpInit /\ [][NextHttp]_vars /\ HttpSettling

\* ------------------------- two services, one of them with a telemetry sink
\* Two services are constructed with the same options, but that http is given
\* a telemetry sink (the no-op one or a recording one: the service calls both
\* alike and neither returns anything) and mem.h none; the caller makes the
\* same call on both, and fetch and Math.random() answer both alike.
HttpOps ==
  {"listReservations", "createReservation", "updateReservationStatus", "deleteReservation",
   "listInventoryItems", "addInventoryItem", "updateInventoryItem", "deleteInventoryItem"}

\* what fetch may answer a call of op
HttpReplies(op) ==
  IF op = "listReservations" THEN ListReplies
  ELSE IF op \in {"createReservation", "updateReservationStatus", "deleteReservation"}
  THEN ItemReplies
  ELSE InventoryReplies

\* the call h once the fetch (with reply) or the sleep it awaits has settled
HttpSettled(h, reply, random) ==
  CASE h.op = "listReservations" /\ h.pc = "fetch" -> listReservations_fetched(h, reply, random)
    [] h.op = "listReservations" /\ h.pc = "sleep" -> listReservations_slept(h)
    [] h.op = "createReservation" ->
         Res_single_fetched(h, reply, "Failed to create reservation", TRUE)
    [] h.op = "updateReservationStatus" ->
         Res_single_fetched(h, reply, "Failed to update reservation status", TRUE)
    [] h.op = "deleteReservation" ->
         Res_single_fetched(h, reply, "Failed to delete reservation", FALSE)
    [] h.op = "listInventoryItems" ->
         Inv_single_fetched(h, reply, h.op, "inventory_fetch", "inventory_fetch_failed")
    [] h.op = "addInventoryItem" ->
         Inv_single_fetched(h, reply, h.op, "inventory_add", "inventory_add_failed")
    [] h.op = "updateInventoryItem" ->
         Inv_single_fetched(h, reply, h.op, "inventory_update", "inventory_update_failed")
    [] h.op = "deleteInventoryItem" ->
         Inv_single_fetched(h, reply, h.op, "inventory_delete", "inventory_delete_failed")

\* the same call or the same service, constructed without options.telemetry
withoutTelemetry(h) == [h EXCEPT !.options.telemetry = FALSE]

TwinInit ==
  /\ http \in { [op |-> "idle", options |-> o] : o \in { p \in HttpOptions : p.telemetry } }
  /\ mem = [service |-> "twin", h |-> withoutTelemetry(http)]
  /\ uc = [service |-> "none", useCase |-> "none"]
  /\ limit = 0
  /\ domain = "none"
  /\ svcItems = <<>>
  /\ svcNextId = 0
  /\ now = 0
  /\ items = <<>>
  /\ totalCount = 0
  /\ loading = FALSE
  /\ adding = FALSE
  /\ updating = FALSE
  /\ deleting = FALSE
  /\ error = null
  /\ pending = [k \in Kinds |-> <<>>]
  /\ calls = 0
  /\ last = "start"
  /\ failedSinceStart = FALSE

\* the caller makes one call, the same on both services; a method does
\* nothing with the sink before its first fetch
Twin_invoked ==
  /\ mem.service = "twin" /\ http.op = "idle"
  /\ \E op \in HttpOps :
       \E h \in HttpInvocations(op) :
         /\ http' = h
         /\ mem' = [mem EXCEPT !.h = withoutTelemetry(h)]
  /\ UNCHANGED <<containerVars, uc>>

\* the fetch or the sleep both calls await settles, in the same way for both
Twin_settled ==
  /\ mem.service = "twin" /\ http.op # "idle"
  /\ http.pc \in {"fetch", "sleep"} /\ mem.h.pc = http.pc
  /\ \E reply \in HttpReplies(http.op), random \in Randoms :
       /\ http' = HttpSettled(http, reply, random)
       /\ mem' = [mem EXCEPT !.h = HttpSettled(mem.h, reply, random)]
  /\ UNCHANGED <<containerVars, uc>>

NextTwin ==
  \/ Twin_invoked
  \/ Twin_settled

TwinSpec == TwinInit /\ [][NextTwin]_vars

\* ------------------------------------- the fake services and their arrays
\* A JavaScript array is an object: two names may hold the same array, and a
\* write through one is seen through the other.  mem.arrays is the heap of
\* arrays, a reference is an index into it; mem.initial is the array the
\* constructor was given (the caller keeps it), mem.items is this.items, and
\* mem.returned are the arrays list calls have returned, oldest first.
MaxArrays == 4
MaxFakeWrites == 2
MaxCallerWrites == 1
MaxLen == 2

\* an object the caller puts into an array it holds
stray(service) ==
  IF service = "inventory" THEN [seedDevice EXCEPT !.id = "stray"]
  ELSE [seedReservation EXCEPT !.id = "stray"]

\* array.reverse()
reverse(s) == [i \in 1..Len(s) |-> s[Len(s) + 1 - i]]

\* what a caller may do to an array it holds: push, splice(0, 1), reverse
CallerWrites == {"push", "splice", "reverse"}
CallerWrite(write, service, s) ==
  CASE write = "push" -> Append(s, stray(service))
    [] write = "splice" -> splice(s, 1)
    [] write = "reverse" -> reverse(s)

\* the store of the service: the array this.items refers to
Store(m) == m.arrays[m.items]

\* new FakeInventoryService(initial): this.items = [...initial];
\* new FakeReservationService(initial): this.items = initial.map(r => ({...r}))
FakeInit ==
  /\ \E service \in {"inventory", "reservations"} :
       \E initial \in (IF service = "inventory" THEN InitialDevices ELSE InitialReservations) :
         mem = [service |-> service, arrays |-> <<initial, initial>>, initial |-> 1,
                items |-> 2, returned |-> <<>>,
                idCounter |-> (IF service = "inventory" THEN Len(initial) ELSE 1),
                op |-> "new", out |-> undefined, fakeWrites |-> 0, callerWrites |-> 0]
  /\ http = [op |-> "none"]
  /\ uc = [service |-> "none", useCase |-> "none"]
  /\ limit = 0
  /\ domain = "none"
  /\ svcItems = <<>>
  /\ svcNextId = 0
  /\ now = 0
  /\ items = <<>>
  /\ totalCount = 0
  /\ loading = FALSE
  /\ adding = FALSE
  /\ updating = FALSE
  /\ deleting = FALSE
  /\ error = null
  /\ pending = [k \in Kinds |-> <<>>]
  /\ calls = 0
  /\ last = "start"
  /\ failedSinceStart = FALSE

\* listInventoryItems(): { items: [...this.items], totalCount: this.items.length }
\* listReservations(statusFilter): filtered = [...this.items], filtered again
\* when the filter is given; { items: filtered, totalCount: filtered.length }
\* a list that returns this.items itself
Fake_list_shares ==
  /\ mem.service \in {"inventory", "reservations"}
  /\ Len(mem.arrays) < MaxArrays
  /\ mem' = [mem EXCEPT !.returned = Append(@, mem.items),
                        !.op = "list",
                        !.out = Some([items |-> mem.items, totalCount |-> Len(Store(mem)),
                                      statusFilter |-> undefined])]
  /\ UNCHANGED <<containerVars, http, uc>>

Fake_list ==
  /\ mem.service \in {"inventory", "reservations"}
  /\ Len(mem.arrays) < MaxArrays
  /\ \E statusFilter \in (IF mem.service = "inventory" THEN {undefined} ELSE StatusFilters) :
       LET out == IF mem.service = "inventory" THEN Inv_listInventoryItems(Store(mem))
                  ELSE Res_listReservations(Store(mem), statusFilter)
           ref == Len(mem.arrays) + 1
       IN mem' = [mem EXCEPT !.arrays = Append(@, out.items),
                             !.returned = Append(@, ref),
                             !.op = "list",
                             !.out = Some([items |-> ref, totalCount |-> out.totalCount,
                                           statusFilter |-> statusFilter])]
  /\ UNCHANGED <<containerVars, http, uc>>

\* a mutating method of the service: it writes this.items in place (unshift,
\* push, this.items[index] = updated, splice), or throws and writes nothing
FakeWrites(m, out, op) ==
  [m EXCEPT !.arrays = IF out.threw THEN @ ELSE [@ EXCEPT ![m.items] = out.store],
            !.idCounter = IF out.threw THEN @ ELSE out.nextId,
            !.op = op,
            !.out = undefined,
            !.fakeWrites = @ + 1]

Fake_add ==
  /\ mem.service \in {"inventory", "reservations"}
  /\ mem.fakeWrites < MaxFakeWrites /\ Len(Store(mem)) < MaxLen
  /\ IF mem.service = "inventory"
     THEN \E command \in AddInventoryCommands :
            mem' = FakeWrites(mem, Inv_addInventoryItem(Store(mem), mem.idCounter,
                                                        addInventory_input(command), 1), "add")
     ELSE \E command \in CreateReservationCommands :
            mem' = FakeWrites(mem, Res_createReservation(Store(mem), mem.idCounter,
                                                         command, 1), "add")
  /\ UNCHANGED <<containerVars, http, uc>>

Fake_update ==
  /\ mem.service \in {"inventory", "reservations"}
  /\ mem.fakeWrites < MaxFakeWrites
  /\ IF mem.service = "inventory"
     THEN \E command \in UpdateInventoryCommands :
            mem' = FakeWrites(mem, Inv_updateInventoryItem(Store(mem), mem.idCounter, command.id,
                                                           updateInventory_input(command), 1),
                              "update")
     ELSE \E command \in UpdateReservationStatusCommands :
            mem' = FakeWrites(mem, Res_updateReservationStatus(Store(mem), mem.idCounter,
                                                               command.id,
                                                               [status |-> command.status], 1),
                              "update")
  /\ UNCHANGED <<containerVars, http, uc>>

Fake_delete ==
  /\ mem.service \in {"inventory", "reservations"}
  /\ mem.fakeWrites < MaxFakeWrites
  /\ IF mem.service = "inventory"
     THEN \E command \in DeleteInventoryCommands :
            mem' = FakeWrites(mem, Inv_deleteInventoryItem(Store(mem), mem.idCounter,
                                                           command.id), "delete")
     ELSE \E command \in DeleteReservationCommands :
            mem' = FakeWrites(mem, Res_deleteReservation(Store(mem), mem.idCounter,
                                                         command.id), "delete")
  /\ UNCHANGED <<containerVars, http, uc>>

\* the caller writes an array it holds: the one it constructed the service
\* with, or one a list call returned
Caller_writes ==
  /\ mem.service \in {"inventory", "reservations"}
  /\ mem.callerWrites < MaxCallerWrites
  /\ \E ref \in {mem.initial} \cup {mem.returned[k] : k \in 1..Len(mem.returned)},
        write \in CallerWrites :
       /\ write = "push" => Len(mem.arrays[ref]) < MaxLen
       /\ mem' = [mem EXCEPT !.arrays = [@ EXCEPT ![ref] = CallerWrite(write, mem.service, @)],
                             !.op = "caller",
                             !.out = undefined,
                             !.callerWrites = @ + 1]
  /\ UNCHANGED <<containerVars, http, uc>>

NextFake ==
  \/ Fake_list
  \/ Fake_add
  \/ Fake_update
  \/ Fake_delete
  \/ Caller_writes

FakeSpec == FakeInit /\ [][NextFake]_vars

\* ------------------------------------------- the functions of retry.ts
\* a response status is an integer from 0 to MaxStatus
MaxStatus == 999
Statuses == 0..MaxStatus

\* attemptIndexZeroBased ranges over 0..MaxAttemptIndex
MaxAttemptIndex == 10

\* Math.random() in hundredths: 0.00 .. 0.99
Hundredths == 0..99

\* <<baseDelayMs, maxDelayMs>>, whole milliseconds with 0 < base <= max; the
\* first pair is defaultRetryOptions
BackoffOptions == { <<baseDelayMs, maxDelayMs>>, <<3, 3>>, <<1, 4>>, <<5, 40>>, <<7, 100>> }

\* no function of retry.ts has been called
RetryInit ==
  /\ mem = [service |-> "retry", fn |-> "none"]
  /\ http = [op |-> "none"]
  /\ uc = [service |-> "none", useCase |-> "none"]
  /\ limit = 0
  /\ domain = "none"
  /\ svcItems = <<>>
  /\ svcNextId = 0
  /\ now = 0
  /\ items = <<>>
  /\ totalCount = 0
  /\ loading = FALSE
  /\ adding = FALSE
  /\ updating = FALSE
  /\ deleting = FALSE
  /\ error = null
  /\ pending = [k \in Kinds |-> <<>>]
  /\ calls = 0
  /\ last = "start"
  /\ failedSinceStart = FALSE

\* a call isRetryableHttpStatus(status); the functions keep no state, so a
\* behaviour holds one call
Retry_isRetryableHttpStatus ==
  /\ mem.service = "retry" /\ mem.fn = "none"
  /\ \E status \in Statuses :
       mem' = [service |-> "retry", fn |-> "isRetryableHttpStatus", status |-> status,
               returned |-> isRetryableHttpStatus(status)]
  /\ UNCHANGED <<containerVars, http, uc>>

\* a call computeBackoffDelayMs(attemptIndex, base, max), Math.random() giving
\* random / 100
Retry_computeBackoffDelayMs ==
  /\ mem.service = "retry" /\ mem.fn = "none"
  /\ \E attemptIndex \in 0..MaxAttemptIndex, options \in BackoffOptions, random \in Hundredths :
       mem' = [service |-> "retry", fn |-> "computeBackoffDelayMs",
               attemptIndex |-> attemptIndex, base |-> options[1], max |-> options[2],
               random |-> random,
               d |-> computeBackoffDelayMs(attemptIndex, options[1], options[2], random)]
  /\ UNCHANGED <<containerVars, http, uc>>

NextRetry ==
  \/ Retry_isRetryableHttpStatus
  \/ Retry_computeBackoffDelayMs

RetrySpec == RetryInit /\ [][NextRetry]_vars

\* ------------------------------------------ ListInventory: handleReserve
\* handleReserve invocations, and use-case calls, per behaviour of ReserveSpec
MaxReserves == 2
MaxReserveCalls == 4

cameraDevice ==
  [id |-> "dev_2", name |-> "Camera", description |-> "Mirrorless", count |-> Some(1),
   updatedAt |-> 0]

\* the devices whose cards the list shows
ListedDevices == { seedDevice, cameraDevice }

\* `!value` of a ref holding a string or null
isFalsy(value) == value = null \/ value = Some("")

\* reservedStatusByDeviceId.has(deviceId): a reservation of the device that
\* is reserved or collected is among the container's items
isDeviceReserved(its, deviceId) ==
  \E j \in 1..Len(its) :
    its[j].deviceModelId = deviceId /\ its[j].status \in {"reserved", "collected"}

reservedMessage(item) ==
  Some("Reservation for \"" \o item.name
       \o "\" created successfully! Check \"My Reservations\" to view it.")

\* the view over the reservations container: successMessage, the inventory
\* container's error (that container is idle here), the handleReserve
\* invocations with the await each has reached, and the timers set
ReserveInit ==
  /\ limit = MaxReserveCalls
  /\ domain = "reservations"
  /\ svcItems \in InitialReservations
  /\ svcNextId = 1
  /\ now = 0
  /\ items = <<>>
  /\ totalCount = 0
  /\ loading = FALSE
  /\ adding = FALSE
  /\ updating = FALSE
  /\ deleting = FALSE
  /\ error = null
  /\ pending = [k \in Kinds |-> <<>>]
  /\ calls = 0
  /\ last = "start"
  /\ failedSinceStart = FALSE
  /\ http = [op |-> "none"]
  /\ uc = [service |-> "none", useCase |-> "none"]
  /\ mem = [service |-> "view", successMessage |-> null, error |-> null,
            handlers |-> <<>>, timers |-> [success |-> 0, error |-> 0]]

\* the promise the invocation h awaits has settled: the container returned
\* at its guard, or the call it started is no longer in flight
Resumes(h) ==
  \/ h.pc = "create" /\ (~h.issued \/ pending.add = <<>>)
  \/ h.pc = "fetch" /\ (~h.fetched \/ pending.fetch = <<>>)

\* a continuation is queued: it runs before any click, response or timer
Microtask == \E i \in 1..Len(mem.handlers) : Resumes(mem.handlers[i])

\* handleReserve(item) up to `await createReservation(...)`: a click on the
\* Reserve button of a card, which the list renders when the inventory
\* container has no error and which is disabled once the device is reserved
ListInventory_handleReserve ==
  /\ mem.service = "view" /\ ~Microtask
  /\ isFalsy(mem.error)
  /\ Len(mem.handlers) < MaxReserves
  /\ \E item \in ListedDevices :
       /\ ~isDeviceReserved(items, item.id)
       /\ Res_create_with([deviceModelId |-> item.id, deviceModelName |-> item.name])
       /\ mem' = [mem EXCEPT
                    !.successMessage = null,
                    !.handlers = Append(@,
                       [item |-> item, pc |-> "create", issued |-> ~adding,
                        call |-> IF adding THEN <<>>
                                 ELSE <<pending'.add[Len(pending'.add)].settles>>,
                        fetched |-> FALSE])]
  /\ UNCHANGED <<http, uc>>

\* handleReserve from the end of `await createReservation(...)` to
\* `await fetchReservations()`, or through the else branch to its end
ListInventory_handleReserve_created ==
  /\ mem.service = "view"
  /\ \E i \in 1..Len(mem.handlers) :
       /\ mem.handlers[i].pc = "create" /\ Resumes(mem.handlers[i])
       /\ IF isFalsy(error)
          THEN /\ Res_fetchItems_with(undefined)
               /\ mem' = [mem EXCEPT !.handlers[i].pc = "fetch",
                                     !.handlers[i].fetched = ~loading]
          ELSE /\ mem' = [mem EXCEPT !.error = error,
                                     !.timers.error = @ + 1,
                                     !.handlers[i].pc = "failed"]
               /\ last' = "view"
               /\ UNCHANGED <<domain, limit, svcVars, refVars, pending, calls, failedSinceStart>>
  /\ UNCHANGED <<http, uc>>

\* handleReserve from the end of `await fetchReservations()` to its end
ListInventory_handleReserve_fetched ==
  /\ mem.service = "view"
  /\ \E i \in 1..Len(mem.handlers) :
       /\ mem.handlers[i].pc = "fetch" /\ Resumes(mem.handlers[i])
       /\ mem' = [mem EXCEPT !.successMessage = reservedMessage(mem.handlers[i].item),
                             !.timers.success = @ + 1,
                             !.handlers[i].pc = "reported"]
  /\ last' = "view"
  /\ UNCHANGED <<http, uc, domain, limit, svcVars, refVars, pending, calls, failedSinceStart>>

\* a timer of handleReserve fires: successMessage or error is set to null
ListInventory_timeout ==
  /\ mem.service = "view" /\ ~Microtask
  /\ \/ /\ mem.timers.success > 0
        /\ mem' = [mem EXCEPT !.successMessage = null, !.timers.success = @ - 1]
     \/ /\ mem.timers.error > 0
        /\ mem' = [mem EXCEPT !.error = null, !.timers.error = @ - 1]
  /\ last' = "view"
  /\ UNCHANGED <<http, uc, domain, limit, svcVars, refVars, pending, calls, failedSinceStart>>

\* onMounted and the watch on the signed-in user: fetchReservations()
ListInventory_watch ==
  /\ mem.service = "view" /\ ~Microtask
  /\ Res_fetchItems_with(undefined)
  /\ UNCHANGED otherVars

\* the use-case call of the container's create / fetchItems settles
ListInventory_create_settles == mem.service = "view" /\ ~Microtask /\ Res_create_settled
ListInventory_fetchItems_settles == mem.service = "view" /\ ~Microtask /\ Res_fetchItems_settled

NextReserve ==
  \/ ListInventory_handleReserve
  \/ ListInventory_handleReserve_created
  \/ ListInventory_handleReserve_fetched
  \/ ListInventory_timeout
  \/ ListInventory_watch
  \/ ListInventory_create_settles
  \/ ListInventory_fetchItems_settles

ReserveSpec == ReserveInit /\ [][NextReserve]_vars

\* ---------------------------------------------------------------- claims
\* the flag of an operation kind
Flag(k) ==
  CASE k = "fetch" -> loading
    [] k = "add" -> adding
    [] k = "update" -> updating
    [] k = "remove" -> deleting

NoFlag == ~loading /\ ~adding /\ ~updating /\ ~deleting

\* this step settles the i-th pending call of kind k
SettledStep(k, i) ==
  /\ last' = k
  /\ i \in 1..Len(pending[k])
  /\ pending' = [pending EXCEPT ![k] = splice(@, i)]

\* the string a failed call leaves in error
FailureText(settles) ==
  IF settles.rejected THEN MessageOrString(settles.thrown)
  ELSE Join(settles.result.errors)

\* C1: an invocation made while the operation's own flag is true returns
\* without calling the use case and without changing any container field, so
\* at most one use-case call of a kind is in flight per container.
C1_GuardDropsDuplicate ==
  [][ /\ last' = "return" => UNCHANGED <<svcVars, refVars, pending, calls>>
      /\ \A k \in Kinds : Len(pending'[k]) <= 1 ]_vars

\* a second fetchItems() returned at its guard while the first, and only,
\* list call is in flight
C1_Witness ==
  last = "return" /\ loading /\ ~adding /\ ~updating /\ ~deleting
  /\ Len(pending.fetch) = 1 /\ calls = 1

\* C2: the flag an operation set is cleared when its call settles, whatever
\* the outcome; and, as every call settles, a flag that is true becomes
\* false again.
C2_FlagCleared ==
  /\ [][\A k \in Kinds : last' = k => ~Flag(k)']_vars
  /\ \A k \in Kinds : Flag(k) ~> ~Flag(k)

\* a call settled by a thrown exception and no flag is left set
C2_Witness ==
  last \in Kinds /\ error = Some("oops") /\ NoFlag /\ calls > 0

\* e occurs in the sequence s
InSeq(e, s) == \E j \in 1..Len(s) : s[j] = e

\* the settle record of the i-th pending call of kind k
SettlesOf(k, i) == pending[k][i].settles

\* that call settles to success:true
Succeeds(k, i) == ~Failed(SettlesOf(k, i))

\* C3: fetchItems and add are not mutually excluded, and nothing (no
\* sequence number, no cancellation) keeps a list response computed before
\* an add from overwriting the items that add merged: when a fetch settles
\* successfully, every element the response lacks is gone from items, also
\* one the service holds.
C3_StaleFetchOverwrites ==
  [][\A i \in 1..Len(pending.fetch) :
       (SettledStep("fetch", i) /\ Succeeds("fetch", i))
       => \A k \in 1..Len(items) :
            ~InSeq(items[k], SettlesOf("fetch", i).result.items)
            => ~InSeq(items[k], items')]_vars

\* a fetch and an add overlapped, both succeeded, the fetch settled last, and
\* the container shows the seeded device alone while the service holds two
C3_Witness ==
  /\ domain = "inventory" /\ last = "fetch" /\ calls = 2 /\ NoFlag
  /\ error = null /\ ~failedSinceStart
  /\ Len(svcItems) = 2 /\ items = <<seedDevice>> /\ totalCount = 1
  /\ ~InSeq(svcItems[1], items)

\* C4: a fetchItems that settles to success sets items and totalCount to
\* the values returned and leaves error as it is; one that settles to failure
\* or a thrown exception sets items to [] and totalCount to 0 and sets error
\* to the errors joined with "; ", respectively the exception's message.
C4_FetchSettles ==
  [][\A i \in 1..Len(pending.fetch) :
       SettledStep("fetch", i)
       => IF Succeeds("fetch", i)
          THEN /\ items' = SettlesOf("fetch", i).result.items
               /\ totalCount' = SettlesOf("fetch", i).result.totalCount
               /\ error' = error
          ELSE /\ items' = <<>>
               /\ totalCount' = 0
               /\ error' = Some(FailureText(SettlesOf("fetch", i)))]_vars

\* a second fetch failed with two errors after the first had listed the
\* seeded reservation
C4_Witness ==
  /\ domain = "reservations" /\ last = "fetch" /\ calls = 2 /\ NoFlag
  /\ error = Some("boom; bad") /\ items = <<>> /\ totalCount = 0
  /\ svcItems = <<seedReservation>>

\* the mutating operation kinds
Mutating == {"add", "update", "remove"}

\* C5: a mutating operation that settles to failure or a thrown exception
\* leaves items and totalCount as they are and sets error to the failure
\* text.
C5_MutationFailureKeepsItems ==
  [][\A k \in Mutating : \A i \in 1..Len(pending[k]) :
       (SettledStep(k, i) /\ ~Succeeds(k, i))
       => /\ items' = items
          /\ totalCount' = totalCount
          /\ error' = Some(FailureText(SettlesOf(k, i)))]_vars

\* a status update of an unknown reservation failed while the container
\* shows the seeded reservation
C5_Witness ==
  /\ domain = "reservations" /\ last = "update" /\ NoFlag
  /\ error = Some("Reservation res-404 not found")
  /\ items = <<seedReservation>> /\ totalCount = 1

\* C6: an add/create that settles to success puts the returned item in
\* front of the prior items and sets totalCount to
\* max(prior totalCount + 1, new length of items).
C6_AddPrepends ==
  [][\A i \in 1..Len(pending.add) :
       (SettledStep("add", i) /\ Succeeds("add", i))
       => /\ items' = <<SettlesOf("add", i).result.item>> \o items
          /\ totalCount' = Max(totalCount + 1, Len(items) + 1)]_vars

\* a reservation was created after the seeded one had been listed, and
\* stands in front of it
C6_Witness ==
  /\ domain = "reservations" /\ last = "add" /\ NoFlag /\ error = null
  /\ Len(items) = 2 /\ items[2] = seedReservation /\ items[1].id = "res-1"
  /\ items[1] # seedReservation /\ totalCount = 2

\* C7: a remove that settles to success drops every element whose id is
\* the command's id and sets totalCount to
\* max(prior totalCount - 1, new length of items); deleting the only item
\* of a container with totalCount 1 leaves [] and 0.
C7_RemoveFilters ==
  [][\A i \in 1..Len(pending.remove) :
       (SettledStep("remove", i) /\ Succeeds("remove", i))
       => LET id == pending.remove[i].command.id
              kept == {k \in 1..Len(items) : items[k].id # id}
          IN /\ Len(items') = Cardinality(kept)
             /\ \A j \in 1..Len(items') : items'[j].id # id /\ InSeq(items'[j], items)
             /\ \A k \in kept : InSeq(items[k], items')
             /\ \A a, b \in 1..Len(items') :
                  a < b => \E k, l \in kept : k < l /\ items[k] = items'[a] /\ items[l] = items'[b]
             /\ totalCount' = Max(totalCount - 1, Len(items'))
             /\ totalCount' >= Len(items') /\ totalCount' >= 0
             /\ (Len(items) = 1 /\ items[1].id = id /\ totalCount = 1)
                => (items' = <<>> /\ totalCount' = 0)]_vars

\* the seeded reservation was listed and then deleted: nothing is left
C7_Witness ==
  /\ domain = "reservations" /\ last = "remove" /\ calls = 2 /\ NoFlag
  /\ error = null /\ ~failedSinceStart
  /\ svcItems = <<>> /\ items = <<>> /\ totalCount = 0

\* C8: an update that settles to success replaces every element whose id
\* is the returned item's id by the returned item and leaves the other
\* elements, the order, the length and totalCount as they are.
C8_UpdateReplaces ==
  [][\A i \in 1..Len(pending.update) :
       (SettledStep("update", i) /\ Succeeds("update", i))
       => LET item == SettlesOf("update", i).result.item
          IN /\ Len(items') = Len(items)
             /\ \A k \in 1..Len(items) :
                  items'[k] = IF items[k].id = item.id THEN item ELSE items[k]
             /\ totalCount' = totalCount]_vars

\* the seeded device was listed and its count then updated to 7
C8_Witness ==
  /\ domain = "inventory" /\ last = "update" /\ NoFlag /\ error = null
  /\ Len(items) = 1 /\ items[1].id = "dev_1" /\ items[1].count = Some(7)
  /\ items[1] # seedDevice /\ svcItems = items /\ totalCount = 1

\* C9: the start of an operation sets error to null; error is null or one
\* string; and error is not null only if an operation of the container
\* failed after the most recent start of an operation.
C9_ErrorOnlyAfterFailure ==
  /\ [](Len(error) <= 1)
  /\ [][last' = "start" => error' = null]_vars
  /\ [](error # null => failedSinceStart)

\* C10: over any sequence of updateReservationStatus calls the status of a
\* stored reservation only moves reserved -> collected -> returned.
C10_StatusForwardOnly ==
  [][(domain = "reservations" /\ Len(svcItems') = Len(svcItems))
     => \A k \in 1..Len(svcItems) :
          (svcItems'[k].id = svcItems[k].id /\ svcItems'[k].status # svcItems[k].status)
          => \/ svcItems[k].status = "reserved" /\ svcItems'[k].status = "collected"
             \/ svcItems[k].status = "collected" /\ svcItems'[k].status = "returned"]_vars

\* C11: in every state of a reservation store, each reservation has
\* collectedAt if and only if its status is collected or returned, and
\* returnedAt if and only if its status is returned.
C11_TimestampsMatchStatus ==
  domain = "reservations"
  => \A k \in 1..Len(svcItems) :
       /\ (svcItems[k].collectedAt # undefined) <=> (svcItems[k].status \in {"collected", "returned"})
       /\ (svcItems[k].returnedAt # undefined) <=> (svcItems[k].status = "returned")

\* this step is an updateStatus whose service call worked, made with command
UpdatedStatus(command) ==
  /\ domain = "reservations"
  /\ Len(pending'.update) = Len(pending.update) + 1
  /\ pending'.update[Len(pending'.update)].command = command
  /\ ~Failed(pending'.update[Len(pending'.update)].settles)

\* C12: updateReservationStatus on an existing id sets status to the one
\* requested and updatedAt to now; it sets collectedAt to now when the status
\* is collected and returnedAt to now when it is returned, and leaves the
\* other timestamp as it was; the other fields and the other reservations
\* are unchanged.
C12_UpdateStatusFrame ==
  [][\A command \in UpdateReservationStatusCommands :
       UpdatedStatus(command)
       => LET k == findIndex(svcItems, command.id)
              old == svcItems[k]
              new == svcItems'[k]
          IN /\ k > 0
             /\ Len(svcItems') = Len(svcItems)
             /\ new.status = command.status
             /\ new.updatedAt = now' /\ now' >= now
             /\ new.collectedAt = IF command.status = "collected" THEN Some(now')
                                  ELSE old.collectedAt
             /\ new.returnedAt = IF command.status = "returned" THEN Some(now')
                                 ELSE old.returnedAt
             /\ new.id = old.id /\ new.userId = old.userId
             /\ new.deviceModelId = old.deviceModelId
             /\ new.deviceModelName = old.deviceModelName
             /\ new.createdAt = old.createdAt
             /\ \A j \in 1..Len(svcItems) : j # k => svcItems'[j] = svcItems[j]]_vars

\* the seeded reservation was collected and, later, returned: it keeps the
\* date it was collected at
C12_Witness ==
  /\ domain = "reservations" /\ calls = 2 /\ Len(svcItems) = 1
  /\ svcItems[1].status = "returned"
  /\ svcItems[1].collectedAt = Some(1) /\ svcItems[1].returnedAt = Some(2)
  /\ svcItems[1].updatedAt = 2 /\ svcItems[1].createdAt = 0

\* C20: the id counter of a fake service never decreases, and the stored
\* entities have pairwise-distinct ids in every state reached from an initial
\* list with pairwise-distinct ids.
C20_IdsDistinct ==
  /\ [][svcNextId' >= svcNextId]_vars
  /\ [](\A j, k \in 1..Len(svcItems) : j # k => svcItems[j].id # svcItems[k].id)

\* a use case has been called
Called == uc.useCase # "none"

\* the data a use case copies from what the service gave
DataOf(useCase, out) ==
  IF useCase \in {"listInventory", "listReservations"}
  THEN [success |-> TRUE, items |-> out.items, totalCount |-> out.totalCount]
  ELSE IF useCase \in {"deleteInventory", "deleteReservation"}
  THEN [success |-> TRUE]
  ELSE [success |-> TRUE, item |-> out.item]

\* C18: the promise of a use case resolves whatever the service method
\* does: to success:true with the data of the service's output when the
\* service resolves, and to success:false with exactly one message when it
\* rejects, the Error's message when the rejection value is an Error.
C18_UseCaseNeverRejects ==
  Called
  => /\ ~uc.settles.rejected
     /\ IF ~uc.out.threw
        THEN uc.settles.result = DataOf(uc.useCase, uc.out)
        ELSE /\ ~uc.settles.result.success
             /\ Len(uc.settles.result.errors) = 1
             /\ uc.out.thrown.isError
                => uc.settles.result.errors[1] = uc.out.thrown.message

\* deleteInventory was called over a service that rejected with a value that
\* is not an Error, after a call that deleted the seeded device
C18_Witness ==
  /\ uc.service = "inventory" /\ uc.useCase = "deleteInventory" /\ calls = 2
  /\ svcItems = <<>> /\ uc.out.threw /\ ~uc.out.thrown.isError
  /\ uc.settles = Resolved([success |-> FALSE, errors |-> <<"oops">>])

\* the service rejected the call with a value that is not an Error
NonErrorRejection(c) == c.useCase # "none" /\ c.out.threw /\ ~c.out.thrown.isError

\* C19: when the service rejects with a value that is not an Error, each
\* use case resolves to success:false with one message, a fixed string of the
\* operation that does not depend on the value thrown ("Failed to list
\* reservations", "Failed to update reservation status", ...).
C19_FixedFallback ==
  /\ [](NonErrorRejection(uc)
        => /\ uc.settles = Resolved([success |-> FALSE, errors |-> uc.settles.result.errors])
           /\ Len(uc.settles.result.errors) = 1
           /\ uc.useCase = "listReservations"
              => uc.settles.result.errors[1] = "Failed to list reservations"
           /\ uc.useCase = "updateReservationStatus"
              => uc.settles.result.errors[1] = "Failed to update reservation status")
  /\ [][(NonErrorRejection(uc) /\ NonErrorRejection(uc') /\ uc'.useCase = uc.useCase)
        => uc'.settles = uc.settles]_vars

\* the call followed is a listReservations of HttpReservationService
Listing == http.op = "listReservations"

\* the reply is a response with a retryable status
RetryableStatus(reply) ==
  ~reply.threw /\ ~ok(reply.response) /\ isRetryableHttpStatus(reply.response.status)

\* the fetch was rejected with a likely network error
NetworkFailure(reply) == reply.threw /\ isLikelyNetworkError(reply.thrown)

\* the body of the response parses as JSON and every element of it maps
PayloadReads(res) ==
  /\ res.body.kind # "unparseable"
  /\ res.body.kind = "array"
     => \A k \in 1..Len(res.body.elements) : ~res.body.elements[k].isNull

\* C13: listReservations sends at most 3 requests; a further request is sent
\* only after an attempt that ended in a retryable status or a likely network
\* error, and after the wait computeBackoffDelayMs(k-1, 500, 4000) that follows
\* the k-th attempt; the first 2xx response ends the call, with a result when its
\* payload reads; there is no wait after the last attempt; and the call ends.
C13_ListRetries ==
  /\ [](Listing
        => /\ http.requests <= 3
           /\ Len(http.waits) <= 2
           /\ \A k \in 1..Len(http.waits) :
                \E r \in Randoms : http.waits[k] = computeBackoffDelayMs(k - 1, 500, 4000, r)
           /\ http.pc = "fetch" => Len(http.waits) = http.requests
           /\ http.pc = "done" => Len(http.waits) = http.requests - 1
           /\ \A k \in 1..Len(http.replies) :
                (~http.replies[k].threw /\ ok(http.replies[k].response))
                => /\ k = Len(http.replies) /\ http.pc = "done"
                   /\ PayloadReads(http.replies[k].response) => ~http.out[1].threw)
  /\ [][(Listing /\ http'.requests = http.requests + 1 /\ http.requests >= 1)
        => \/ RetryableStatus(http.replies[Len(http.replies)])
           \/ NetworkFailure(http.replies[Len(http.replies)])]_vars
  /\ Listing ~> (Listing /\ http.pc = "done")

\* every attempt of the call received a response with a retryable status
AllRetryableStatus ==
  /\ Listing /\ http.pc = "done" /\ Len(http.replies) = attempts
  /\ \A k \in 1..Len(http.replies) : RetryableStatus(http.replies[k])

\* C14: when every attempt up to the attempt count receives a retryable
\* status, listReservations fails with "Reservations service temporarily
\* unavailable (<status>). Please try again in a moment."
C14_UnavailableMessage ==
  AllRetryableStatus
  => /\ http.out[1].threw
     /\ http.out[1].thrown.isError
     /\ http.out[1].thrown.message =
          "Reservations service temporarily unavailable ("
          \o ToString(http.replies[attempts].response.status)
          \o "). Please try again in a moment."

\* every attempt of the call failed with a likely network error
AllNetworkFailures ==
  /\ Listing /\ http.pc = "done"
  /\ \A k \in 1..Len(http.replies) : NetworkFailure(http.replies[k])

\* C15: when every attempt fails with a likely network error,
\* listReservations fails with the error of the last attempt, that very
\* value, after exactly 3 requests.
C15_NetworkErrorSurfaces ==
  AllNetworkFailures
  => /\ http.requests = 3
     /\ Len(http.replies) = 3
     /\ http.out[1] = [threw |-> TRUE, thrown |-> http.replies[3].thrown]

\* three fetches were rejected with "Failed to fetch" and the call threw it
C15_Witness ==
  /\ AllNetworkFailures /\ http.requests = 3 /\ Len(http.waits) = 2
  /\ http.out[1].threw /\ http.out[1].thrown = HttpError("TypeError", "Failed to fetch")
  /\ http.result[1] = [success |-> FALSE, errors |-> <<"Failed to fetch">>]

\* the reply is one that is not to be retried: a response that is not ok
\* with a status that is not retryable, or an ok response whose payload
\* does not parse or does not map
NonRetryable(reply) ==
  /\ ~reply.threw
  /\ IF ~ok(reply.response) THEN ~isRetryableHttpStatus(reply.response.status)
     ELSE \/ reply.response.body.kind = "unparseable"
          \/ /\ reply.response.body.kind = "array"
             /\ \E k \in 1..Len(reply.response.body.elements) :
                  reply.response.body.elements[k].isNull

\* C16: listReservations never retries after a response with a status that
\* is not retryable, whatever its body says, nor after a payload error on a
\* 2xx response: the call fails there, after exactly one request and no wait
\* when it is the first attempt.
C16_NonRetryableNotRetried ==
  Listing
  => \A k \in 1..Len(http.replies) :
       NonRetryable(http.replies[k])
       => /\ k = Len(http.replies)
          /\ http.pc = "done"
          /\ http.out[1].threw
          /\ k = 1 => (http.requests = 1 /\ http.waits = <<>>)

ServiceRan(useCase) ==
  calls' = calls + 1 /\ uc'.useCase = useCase /\ uc'.fault = undefined

\* the message of the Error a fake service throws for an id it does not hold
NotFound(service, id) ==
  IF service = "inventory" THEN "Device with id " \o id \o " not found"
  ELSE "Reservation " \o id \o " not found"

\* what a list call gives over the store its
ListOf(service, its) ==
  IF service = "inventory" THEN Inv_listInventoryItems(its)
  ELSE Res_listReservations(its, undefined)

\* C21: on the fake services, update and delete of an id that is not in the
\* store fail with exactly "Device with id {id} not found" / "Reservation
\* {id} not found", and leave the store as it was (entities, order, id
\* counter), so a following list gives what it gave before.
C21_MissingIdFails ==
  [][\A useCase \in {"updateInventory", "deleteInventory",
                     "updateReservationStatus", "deleteReservation"} :
       (ServiceRan(useCase) /\ findIndex(svcItems, uc'.command.id) = 0)
       => /\ uc'.out = [threw |-> TRUE,
                        thrown |-> Error(NotFound(uc.service, uc'.command.id))]
          /\ svcItems' = svcItems
          /\ svcNextId' = svcNextId
          /\ ListOf(uc.service, svcItems') = ListOf(uc.service, svcItems)]_vars

\* deleteInventory of dev_404 failed over a store that holds the seeded device
C21_Witness ==
  /\ uc.useCase = "deleteInventory" /\ uc.fault = undefined /\ uc.command.id = "dev_404"
  /\ uc.out = [threw |-> TRUE, thrown |-> Error("Device with id dev_404 not found")]
  /\ svcItems = <<seedDevice>> /\ svcNextId = 1

\* the step is one of the fake service followed with its arrays
FakeStep(ops) == mem.service \in {"inventory", "reservations"} /\ mem' # mem /\ mem'.op \in ops

\* C22: the array a list call of a fake service returns is a new array
\* holding the current store (the part of it the filter keeps), with
\* totalCount its length; a write by the caller to an array returned never
\* changes the store nor the id counter, which decide every later service
\* call; and a later add, update or delete never changes an array returned
\* earlier.
C22_ListReturnsCopy ==
  /\ [][FakeStep({"list"})
        => LET out == mem'.out[1] IN
           /\ out.items > Len(mem.arrays)
           /\ out.statusFilter = undefined => mem'.arrays[out.items] = Store(mem)
           /\ \A i \in 1..Len(mem'.arrays[out.items]) :
                \E j \in 1..Len(Store(mem)) : mem'.arrays[out.items][i] = Store(mem)[j]
           /\ out.totalCount = Len(mem'.arrays[out.items])
           /\ \A ref \in 1..Len(mem.arrays) : mem'.arrays[ref] = mem.arrays[ref]]_vars
  /\ [][FakeStep({"caller"})
        => /\ Store(mem') = Store(mem)
           /\ mem'.idCounter = mem.idCounter
           /\ ListOf(mem.service, Store(mem')) = ListOf(mem.service, Store(mem))]_vars
  /\ [][FakeStep({"add", "update", "delete"})
        => \A k \in 1..Len(mem.returned) :
             mem'.arrays[mem.returned[k]] = mem.arrays[mem.returned[k]]]_vars

\* an array was returned, the caller wrote to it, the service then wrote its
\* store, and the two differ
C22_Witness ==
  /\ mem.service = "inventory" /\ mem.op = "add"
  /\ mem.callerWrites >= 1 /\ Len(mem.returned) >= 1
  /\ mem.arrays[mem.returned[1]] = <<seedDevice, stray("inventory")>>
  /\ Len(Store(mem)) = 2 /\ Store(mem)[2] = seedDevice

\* the value a field has after a merge: the supplied one, or the prior one
Merged(supplied, prior) == IF supplied = undefined THEN prior ELSE supplied[1]

\* C23: updateInventoryItem on an id that is stored, reached through the
\* updateInventory use case, merges the supplied fields only: a field of
\* name, description, count that the command does not supply keeps its value,
\* a supplied one takes the supplied value (count 0 too), the id and the
\* position of the item stay, and no other item changes.
C23_UpdateMerges ==
  [][(ServiceRan("updateInventory") /\ findIndex(svcItems, uc'.command.id) # 0)
     => LET command == uc'.command
            index == findIndex(svcItems, command.id)
            prior == svcItems[index]
            updated == svcItems'[index]
        IN /\ ~uc'.out.threw
           /\ uc'.out.item = updated
           /\ Len(svcItems') = Len(svcItems)
           /\ updated.id = prior.id
           /\ updated.name = Merged(command.name, prior.name)
           /\ updated.description = Merged(command.description, prior.description)
           /\ updated.count = (IF command.count = undefined THEN prior.count ELSE command.count)
           /\ \A j \in 1..Len(svcItems) : j # index => svcItems'[j] = svcItems[j]]_vars

\* after an add, the seeded device (now second) was given the count 0
C23_Witness ==
  /\ uc.useCase = "updateInventory" /\ uc.fault = undefined
  /\ uc.command = [id |-> "dev_1", name |-> undefined, description |-> undefined,
                   count |-> Some(0)]
  /\ Len(svcItems) = 2 /\ svcItems[1].id = "dev_2"
  /\ svcItems[2].id = "dev_1" /\ svcItems[2].count = Some(0)
  /\ svcItems[2].name = "Laptop" /\ svcItems[2].description = "Dell XPS"

\* C24: an update that succeeds (updateInventoryItem, updateReservationStatus)
\* leaves the item with an updatedAt strictly greater than the one it had
\* before the call.
C24_UpdatedAtIncreases ==
  [][\A useCase \in {"updateInventory", "updateReservationStatus"} :
       (ServiceRan(useCase) /\ findIndex(svcItems, uc'.command.id) # 0)
       => LET index == findIndex(svcItems, uc'.command.id)
          IN svcItems'[index].updatedAt > svcItems[index].updatedAt]_vars

\* the count an add is to store: 1 when omitted, the supplied one otherwise
Defaulted(count) == IF count = undefined THEN Some(1) ELSE count

\* the step is a call of addInventoryItem on the fake service itself
DirectAdd ==
  calls' = calls + 1 /\ uc'.useCase = "none" /\ uc'.service = "inventory"

\* C25: an add with the count omitted gives an item with count 1: the
\* addInventory use case hands count 1 to the service, the fake service
\* defaults an omitted count to 1, and so does the body of the HTTP add
\* request; a supplied count, 0 too, is handed on and stored as it is.
C25_CountDefaultsToOne ==
  /\ [][ServiceRan("addInventory")
        => /\ uc'.input.count = Defaulted(uc'.command.count)
           /\ uc'.out.item.count = Defaulted(uc'.command.count)
           /\ svcItems'[1] = uc'.out.item
           /\ uc'.settles.result = [success |-> TRUE, item |-> uc'.out.item]]_vars
  /\ [][DirectAdd
        => /\ uc'.out.item.count = Defaulted(uc'.input.count)
           /\ svcItems'[1] = uc'.out.item]_vars
  /\ [](\A input \in AddDeviceInputs :
          toAddDeviceRequestDto(input).count = Defaulted(input.count))

\* addInventory was called without a count and the item stored has count 1
C25_Witness ==
  /\ uc.useCase = "addInventory" /\ uc.fault = undefined
  /\ uc.command.count = undefined /\ uc.input.count = Some(1)
  /\ svcItems[1].count = Some(1) /\ svcItems[1] = uc.out.item

\* the count is absent, or a whole number that is not negative
CountValid(count) == count = undefined \/ (count[1] \in Int /\ count[1] >= 0)

\* C26: the count of a Device, when present, is a whole number >= 0: no
\* sequence of adds and updates through the use cases and the services, with
\* any command values, stores or returns a Device with a negative count.
C26_CountNeverNegative ==
  uc.service = "inventory"
  => /\ \A k \in 1..Len(svcItems) : CountValid(svcItems[k].count)
     /\ (uc.useCase \in {"addInventory", "updateInventory"} /\ ~uc.out.threw)
        => CountValid(uc.out.item.count)

\* C27: an add on a fake service inserts at a fixed place and leaves every
\* stored entity as it was: a new device is first in the next list, a new
\* reservation is last; a new reservation has status reserved, userId
\* "test-user-id", createdAt equal to updatedAt, and neither collectedAt nor
\* returnedAt.
C27_AddPosition ==
  /\ [][(ServiceRan("addInventory") \/ DirectAdd)
        => /\ svcItems' = <<uc'.out.item>> \o svcItems
           /\ Inv_listInventoryItems(svcItems').items[1] = uc'.out.item]_vars
  /\ [][ServiceRan("createReservation")
        => LET item == uc'.out.item
               listed == Res_listReservations(svcItems', undefined).items
           IN /\ svcItems' = svcItems \o <<item>>
              /\ listed[Len(listed)] = item
              /\ item.status = "reserved"
              /\ item.userId = "test-user-id"
              /\ item.createdAt = item.updatedAt
              /\ item.collectedAt = undefined
              /\ item.returnedAt = undefined]_vars

\* a reservation was created after the seeded one and is last in the store
C27_Witness ==
  /\ uc.useCase = "createReservation" /\ uc.fault = undefined
  /\ Len(svcItems) = 2 /\ svcItems[1] = seedReservation
  /\ svcItems[2] = uc.out.item /\ svcItems[2].id = "res-1"

\* the statuses a filter names
StatusesOf(statusFilter) == { statusFilter[1][k] : k \in 1..Len(statusFilter[1]) }

\* the places of the stored reservations a filter keeps
KeptBy(its, statusFilter) ==
  IF statusFilter = undefined \/ statusFilter[1] = <<>>
  THEN 1..Len(its)
  ELSE { k \in 1..Len(its) : its[k].status \in StatusesOf(statusFilter) }

\* C28: listReservations(statusFilter) of the fake service returns, for a
\* filter that is given and not empty, exactly the stored reservations whose
\* status is in the filter, in the order of the store, with totalCount their
\* number; without a filter or with an empty one it returns them all; the
\* store stays as it is.
C28_ListFilters ==
  [][ServiceRan("listReservations")
     => LET kept == KeptBy(svcItems, uc'.command)
            out == uc'.out
        IN /\ ~out.threw
           /\ Len(out.items) = Cardinality(kept)
           /\ out.totalCount = Cardinality(kept)
           /\ \A i \in 1..Len(out.items) :
                \E k \in kept : /\ Cardinality({j \in kept : j <= k}) = i
                                /\ out.items[i] = svcItems[k]
           /\ svcItems' = svcItems
           /\ svcNextId' = svcNextId]_vars

\* a list filtered by collected and returned gave the one collected
\* reservation of a store of two
C28_Witness ==
  /\ uc.useCase = "listReservations" /\ uc.fault = undefined
  /\ uc.command = Some(<<"collected", "returned">>)
  /\ svcItems = <<seedReservation, collectedReservation>>
  /\ uc.out.items = <<collectedReservation>> /\ uc.out.totalCount = 1

\* a method of an HTTP service was invoked
Invoked == http.op \notin {"none", "idle"}

\* the Authorization header a request is to carry under the provider
Bearer(provider) ==
  IF provider.kind = "resolves" /\ provider.token \notin {null, Some("")}
  THEN Some("Bearer " \o provider.token[1])
  ELSE undefined

\* C29: token injection is best-effort for every operation of the HTTP
\* services: with a provider that resolves to a non-empty token every request
\* carries Authorization: Bearer {token}; with no provider, or one that
\* resolves to null or rejects, the request is sent all the same, without an
\* Authorization header, and the response alone decides the outcome.
C29_TokenBestEffort ==
  Invoked
  => /\ \A k \in 1..Len(http.sent) :
          http.sent[k].headers.Authorization = Bearer(http.options.provider)
     /\ Len(http.sent) = http.requests
     /\ http.pc = "done"
        => /\ http.requests >= 1
           /\ (/\ http.op \in {"deleteReservation", "deleteInventoryItem"}
               /\ ~http.replies[1].threw
               /\ ok(http.replies[1].response))
              => ~http.out[1].threw
           /\ http.out[1].threw
              => (http.replies[Len(http.replies)].threw \/ http.lastRes # undefined)

\* with a provider that rejects, deleteInventoryItem sent its request with no
\* Authorization header and returned on a 2xx response
C29_Witness ==
  /\ http.op = "deleteInventoryItem" /\ http.pc = "done"
  /\ http.options.provider.kind = "rejects"
  /\ Len(http.sent) = 1 /\ http.sent[1].headers.Authorization = undefined
  /\ ~http.replies[1].threw /\ ok(http.replies[1].response)
  /\ http.out[1] = [threw |-> FALSE]

\* an HTTP service constructed with a telemetry sink has finished a call
Reported == Invoked /\ http.options.telemetry /\ http.pc = "done"

\* name ends in "_failed"
isFailedEvent(name) ==
  Len(name) >= 7 /\ SubSeq(name, Len(name) - 6, Len(name)) = "_failed"

\* the events of the call that name the operation's success
SucceededEvents ==
  { k \in 1..Len(http.events) :
      /\ http.events[k] \notin {"exception", "reservations_fetch_retry"}
      /\ ~isFailedEvent(http.events[k]) }

\* C30: with a telemetry sink configured, every operation of the HTTP
\* services records exactly one dependency call whatever the outcome, whose
\* success flag is true exactly when the operation returned normally; an
\* operation that returned emitted its named event; an operation that failed
\* emitted an exception record and a "{operation}_failed" event.
C30_TelemetryRecorded ==
  Reported
  => /\ Len(http.dependencies) = 1
     /\ http.dependencies[1].success = ~http.out[1].threw
     /\ ~http.out[1].threw => SucceededEvents # {}
     /\ http.out[1].threw
        => /\ \E k \in 1..Len(http.events) : http.events[k] = "exception"
           /\ \E k \in 1..Len(http.events) : isFailedEvent(http.events[k])

\* isRetryableHttpStatus was called
RetryableAsked == mem.service = "retry" /\ mem.fn = "isRetryableHttpStatus"

\* C32 as stated: isRetryableHttpStatus(status) is true exactly when status is
\* 408, 429 or one of 500..599, and false for every other status.
C32_RetryableExactly5xx ==
  RetryableAsked => (mem.returned <=> mem.status \in ({408, 429} \cup (500..599)))

\* C32 amended: isRetryableHttpStatus(status) is true for 408, for 429, for
\* every 5xx status and for every status above 599, and false for every
\* status below 500 other than 408 and 429.
C32_RetryableFrom500 ==
  RetryableAsked
  => /\ mem.status \in {408, 429} => mem.returned
     /\ mem.status \in 500..599 => mem.returned
     /\ mem.status > 599 => mem.returned
     /\ (mem.status < 500 /\ mem.status \notin {408, 429}) => ~mem.returned

\* isRetryableHttpStatus(600) returned true
C32_Witness == RetryableAsked /\ mem.status = 600 /\ mem.returned

\* computeBackoffDelayMs was called
BackoffAsked == mem.service = "retry" /\ mem.fn = "computeBackoffDelayMs"

\* min(maxDelayMs, baseDelayMs * 2^attemptIndex), the delay before the jitter
Exp(attemptIndex, base, max) ==
  IF max <= base * Pow2(attemptIndex) THEN max ELSE base * Pow2(attemptIndex)

\* C33 as stated: for attemptIndex >= 0 and 0 < baseDelayMs <= maxDelayMs,
\* computeBackoffDelayMs returns an integer d with exp <= d <= 1.2 * exp,
\* exp = min(maxDelayMs, baseDelayMs * 2^attemptIndex); (0, 500, 4000) gives a
\* value in [500, 600] and (10, 500, 4000) one in [4000, 4800]; exp does not
\* decrease with attemptIndex; d never exceeds 1.2 * maxDelayMs.
C33_BackoffWithinJitter ==
  BackoffAsked
  => LET exp == Exp(mem.attemptIndex, mem.base, mem.max)
     IN /\ mem.d \in Int
        /\ exp <= mem.d /\ 10 * mem.d <= 12 * exp
        /\ 10 * mem.d <= 12 * mem.max
        /\ exp <= Exp(mem.attemptIndex + 1, mem.base, mem.max)
        /\ (mem.attemptIndex = 0 /\ mem.base = 500 /\ mem.max = 4000) => mem.d \in 500..600
        /\ (mem.attemptIndex = 10 /\ mem.base = 500 /\ mem.max = 4000) => mem.d \in 4000..4800

\* C33 amended: for whole baseDelayMs and maxDelayMs, d is an integer with
\* exp <= d <= 1.2 * exp rounded up, and d <= 1.2 * exp whenever exp is a
\* multiple of 5 (as with 500 and 4000); (0, 500, 4000) gives a value in
\* [500, 600] and (10, 500, 4000) one in [4000, 4800]; exp does not decrease
\* with attemptIndex; d never exceeds 1.2 * maxDelayMs rounded up.
C33_BackoffWithinRoundedJitter ==
  BackoffAsked
  => LET exp == Exp(mem.attemptIndex, mem.base, mem.max)
     IN /\ mem.d \in Int
        /\ exp <= mem.d /\ mem.d <= (12 * exp + 9) \div 10
        /\ exp % 5 = 0 => 10 * mem.d <= 12 * exp
        /\ mem.d <= (12 * mem.max + 9) \div 10
        /\ exp <= Exp(mem.attemptIndex + 1, mem.base, mem.max)
        /\ (mem.attemptIndex = 0 /\ mem.base = 500 /\ mem.max = 4000) => mem.d \in 500..600
        /\ (mem.attemptIndex = 10 /\ mem.base = 500 /\ mem.max = 4000) => mem.d \in 4000..4800

\* computeBackoffDelayMs(0, 3, 3) returned 4, which is above 1.2 * 3
C33_Witness ==
  /\ BackoffAsked /\ mem.attemptIndex = 0 /\ mem.base = 3 /\ mem.max = 3
  /\ mem.d = 4

\* what a caller of the service can see of the call h: the requests sent, the
\* waits between them, and what the call returned or threw (the use-case
\* result is what a container takes its new state from)
Observable(h) ==
  IF h.op = "idle" THEN [op |-> h.op]
  ELSE [op |-> h.op, pc |-> h.pc, sent |-> h.sent, requests |-> h.requests,
        waits |-> h.waits, out |-> h.out, result |-> h.result]

ListedOn2xx ==
  /\ Invoked /\ http.op = "listInventoryItems" /\ http.pc = "done"
  /\ Len(http.replies) = 1 /\ ~http.replies[1].threw /\ ok(http.replies[1].response)

\* the elements of body.data, none when data is no array
DataOf2xx ==
  LET body == http.replies[1].response.body
  IN IF body.kind = "json" /\ body.data # undefined /\ body.data[1].isArray
     THEN body.data[1].elements ELSE <<>>

\* C34: listInventoryItems on a 2xx response returns totalCount equal to the
\* count of the body when the body has one, even when it is not the number of
\* items, and equal to the number of items when the body has none; the items
\* are the elements of data, mapped, in order; an empty body gives no items
\* and totalCount 0.
C34_ListTrustsCount ==
  ListedOn2xx
  => LET body == http.replies[1].response.body
         out == http.out[1]
     IN /\ body.kind = "empty" => out = [threw |-> FALSE, items |-> <<>>, totalCount |-> 0]
        /\ (body.kind = "json" /\ ~out.threw)
           => /\ body.count # undefined => out.totalCount = body.count[1]
              /\ body.count = undefined => out.totalCount = Len(DataOf2xx)
              /\ Len(out.items) = Len(DataOf2xx)
              /\ \A k \in 1..Len(DataOf2xx) :
                   /\ out.items[k].id = DataOf2xx[k].id
                   /\ out.items[k].name = DataOf2xx[k].name
                   /\ out.items[k].description = DataOf2xx[k].description
                   /\ out.items[k].count = DataOf2xx[k].count
                   /\ out.items[k].updatedAt = DataOf2xx[k].updatedAt[1].iso
        /\ (/\ body.kind = "json" /\ body.errors = undefined
            /\ \A k \in 1..Len(DataOf2xx) :
                 DataOf2xx[k].updatedAt # undefined /\ DataOf2xx[k].updatedAt[1].valid)
           => ~out.threw

\* a body with three items and count 5 gave three items and totalCount 5
C34_Witness ==
  /\ ListedOn2xx /\ Len(DataOf2xx) = 3
  /\ http.replies[1].response.body.count = Some(5)
  /\ ~http.out[1].threw /\ http.out[1].totalCount = 5 /\ Len(http.out[1].items) = 3
  /\ http.out[1].items[1].id = "dev_3" /\ http.out[1].items[3].id = "dev_2"

\* addInventoryItem or updateInventoryItem has ended on a 2xx response whose
\* body is JSON (or empty) and lists no errors
ItemReadOn2xx ==
  /\ Invoked /\ http.op \in {"addInventoryItem", "updateInventoryItem"} /\ http.pc = "done"
  /\ Len(http.replies) = 1 /\ ~http.replies[1].threw /\ ok(http.replies[1].response)
  /\ LET body == http.replies[1].response.body
     IN /\ body.kind # "unparseable"
        /\ body.kind = "json" => (body.errors = undefined \/ body.errors[1] = <<>>)

\* the item of the response: item, else data, else the body itself; none for
\* an empty body or the text null
ResolvedItem ==
  LET body == http.replies[1].response.body
  IN IF body.kind # "json" THEN undefined
     ELSE IF body.item # undefined THEN body.item
     ELSE IF body.data # undefined THEN body.data
     ELSE Some(body)

\* the item is missing, an array or no object
ItemAbsent ==
  \/ ResolvedItem = undefined
  \/ ~isObject(ResolvedItem[1])
  \/ ResolvedItem[1].isArray

\* C35: add and update alike take the item of the response from item, else
\* data, else the body itself; an array counts as no item; and when the item
\* is missing or invalid (an array, an empty body, no object) the call fails
\* with "Malformed add device response" or "Malformed update device response".
C35_MalformedItemFails ==
  ItemReadOn2xx
  => /\ ItemAbsent
        => /\ http.out[1].threw
           /\ http.out[1].thrown.message =
                (IF http.op = "addInventoryItem" THEN "Malformed add device response"
                 ELSE "Malformed update device response")
     /\ (~ItemAbsent /\ ~http.out[1].threw)
        => /\ http.out[1].item.id = ResolvedItem[1].id
           /\ http.out[1].item.name = ResolvedItem[1].name

\* the entities of its other than the one with the id
NoIdTwice(its) == \A i, j \in 1..Len(its) : its[i].id = its[j].id => i = j
WithoutId(its, id) == SelectSeq(its, LAMBDA e : e.id # id)

\* the one call in flight is of kind k, it was started by the step before
\* this one, on the service, with success, and this step settles it
MergeSettles(k) ==
  /\ last = "start"
  /\ \A j \in Kinds : Len(pending[j]) = (IF j = k THEN 1 ELSE 0)
  /\ SettledStep(k, 1) /\ Succeeds(k, 1)

\* when the call of kind k started, the container held the list of the
\* service, read from what the call has made of that list since
AgreedAtStart(k) ==
  /\ totalCount = Len(items)
  /\ NoIdTwice(items) /\ NoIdTwice(svcItems)
  /\ CASE k = "add" ->
            \E p \in 1..Len(svcItems) :
              svcItems[p] = SettlesOf(k, 1).result.item /\ items = splice(svcItems, p)
       [] k = "update" ->
            /\ Len(items) = Len(svcItems)
            /\ \A j \in 1..Len(items) :
                 /\ items[j].id = svcItems[j].id
                 /\ items[j].id # pending[k][1].command.id => items[j] = svcItems[j]
       [] k = "remove" ->
            /\ Len(svcItems) = Len(items) - 1
            /\ svcItems = WithoutId(items, pending[k][1].command.id)

LastFirst(its) == IF its = <<>> THEN its ELSE <<its[Len(its)]>> \o SubSeq(its, 1, Len(its) - 1)

CreatedBy(h) == h.issued /\ h.call # <<>> /\ ~Failed(h.call[1])

\* C37: in handleReserve, an invocation goes on to the re-fetch of the
\* reservations and to the success message of its device only after a
\* createReservation call that it issued itself has completed with
\* success:true; an invocation made while creating is true does neither.
C37_SuccessOnlyAfterOwnCreate ==
  mem.service = "view" =>
    \A i \in 1..Len(mem.handlers) :
      mem.handlers[i].pc \in {"fetch", "reported"} => CreatedBy(mem.handlers[i])
====
